---- MODULE Spec2Model ----
(***************************************************************************)
(* CampusBuddy: the REST request handlers (server/src/routes) and the      *)
(* realtime gateway (server/src/socket/handlers.ts) over the document      *)
(* store.  Every handler is an async function: each `await` on the store   *)
(* is a suspension point, so a handler is modelled as one action per       *)
(* stretch of code between two awaits whose interleaving is observable.    *)
(***************************************************************************)
EXTENDS Integers, Sequences, FiniteSets, Bags, TLC

(***************************************************************************)
(* Bounds of the model                                                     *)
(***************************************************************************)
MaxMsgs == 1         \* message documents ever inserted
MaxInflight == 2     \* handlers suspended at an await at the same time
MaxAnns == 1         \* announcement documents ever inserted
MaxLikes == 2        \* announcementLikes documents ever inserted
MaxFeedback == 1     \* feedback documents ever inserted
MaxDocs == 3         \* documents in a listed collection
MaxQuery == 3        \* largest page or limit in a query string
MaxStatusDocs == 2   \* campus status documents ever inserted
MaxPoints == 6       \* points a profile may hold when a campus request starts
MaxMoods == 1         \* mood entries ever inserted
MaxItems == 1        \* lost-found items ever inserted
MaxSubmits == 2      \* submits of the chat form
MaxUserChanges == 3  \* user objects the AuthProvider sets per session
MaxSockets == 3      \* sockets the SocketProvider creates
MaxListed == 2       \* largest document id of a message the chat page is handed

(***************************************************************************)
(* Small input sets                                                        *)
(***************************************************************************)
Uids == {"u1", "u2", "u3"}
Conns == {"s1", "s2"}
Emojis == {"e1", "e2"}

\* the strings clients send: empty, blank, plain, padded on one or both sides
Strings == {<<>>, <<" ">>, <<"a">>, <<"a", " ">>, <<" ", "a", " ">>}

Undefined == <<"undefined">>

VARIABLES
  users,            \* collection 'users': uid -> profile document
  messages,         \* collection 'messages': id -> message document
  nextMsgId,        \* next auto-generated document id of 'messages'
  userActivities,   \* collection 'userActivities' (a bag of log entries)
  sockets,          \* gateway connections: socket id -> socket.user, or closed
  onlineUsers,      \* userId -> socketId
  userSockets,      \* socketId -> userId
  announcements,    \* collection 'announcements': id -> document
  nextAnnId,        \* next auto-generated document id of 'announcements'
  announcementLikes,\* collection 'announcementLikes': a set of documents
  nextLikeId,       \* next auto-generated document id of 'announcementLikes'
  feedback,         \* collection 'feedback': id -> document
  nextFbId,         \* next auto-generated document id of 'feedback'
  feedbackVotes,    \* the vote join documents of 'feedback'
  campusStatus,     \* collection 'campusStatus': id -> document
  nextStatusId,     \* next auto-generated document id of 'campusStatus'
  lostFoundItems,   \* collection 'lostFoundItems': id -> document
  nextItemId,       \* next auto-generated document id of 'lostFoundItems'
  docCount,         \* documents matching the query of a list request
  badges,           \* collection 'badges': the ids of the catalog documents
  moodEntries,      \* collection 'moodEntries': id -> document
  nextMoodId,       \* next auto-generated document id of 'moodEntries'
  inflight,         \* handlers suspended at an await
  resp,             \* the last response sent or event emitted
  submits,          \* client: submits of the chat form so far
  outbox,           \* client: requests handed to the transport, not yet received
  authUser,         \* client: AuthProvider's user value, or NoUser
  initializing,     \* client: initializeSocket calls suspended at an await
  clientSockets,    \* client: the sockets SocketProvider created (open or closed)
  socket,           \* client: SocketProvider's socket value (0 for null)
  chatList          \* client: the chat page's cached message list

chatVars == <<users, messages, nextMsgId, userActivities, sockets,
              onlineUsers, userSockets>>

likeVars == <<announcements, nextAnnId, announcementLikes, nextLikeId>>

fbVars == <<feedback, nextFbId, feedbackVotes>>

statusVars == <<campusStatus, nextStatusId>>

lfVars == <<lostFoundItems, nextItemId>>

badgeVars == <<badges>>

moodVars == <<moodEntries, nextMoodId>>

clientVars == <<submits, outbox, authUser, initializing, clientSockets, socket, chatList>>

nonChatVars == <<likeVars, fbVars, statusVars, lfVars, docCount, badgeVars, moodVars>>

vars == <<chatVars, likeVars, fbVars, statusVars, lfVars, docCount, badgeVars,
          moodVars, inflight, resp, clientVars>>

(***************************************************************************)
(* Strings                                                                 *)
(***************************************************************************)
RECURSIVE TrimStart(_)
TrimStart(s) ==
  IF s # <<>> /\ Head(s) = " " THEN TrimStart(Tail(s)) ELSE s

RECURSIVE TrimEnd(_)
TrimEnd(s) ==
  IF s # <<>> /\ s[Len(s)] = " " THEN TrimEnd(SubSeq(s, 1, Len(s) - 1)) ELSE s

trim(s) == TrimEnd(TrimStart(s))

(***************************************************************************)
(* Identity verifier and profile resolution                                *)
(***************************************************************************)
\* the claims carried by the verified token of each uid
TokenClaims ==
  [u \in Uids |->
     CASE u = "u1" -> [name |-> "Ann", email |-> <<"ann", "x.org">>]
       [] u = "u2" -> [name |-> "Bob", email |-> <<"bob", "x.org">>]
       [] OTHER    -> [name |-> "",    email |-> <<"cy", "x.org">>]]

SynthesizedUser(uid) ==
  LET email == TokenClaims[uid].email
      name  == IF TokenClaims[uid].name # "" THEN TokenClaims[uid].name
               ELSE IF email[1] # "" THEN email[1] ELSE "User"
  IN [id |-> uid, name |-> name, batch |-> "", role |-> "student", points |-> 0]

\* the fields of a profile document the handlers read from req.user / socket.user
UserFields(doc) ==
  [id |-> doc.id, name |-> doc.name, batch |-> doc.batch, role |-> doc.role,
   points |-> doc.points]

\* authenticateToken / io.use: the stored profile, else one made from claims
ResolveUser(uid) ==
  IF uid \in DOMAIN users THEN UserFields(users[uid]) ELSE SynthesizedUser(uid)

\* the same when the read of the profile may fail: a failed read is caught and
\* the profile is made from the claims
ProfileOf(uid, dbOk) ==
  IF dbOk THEN ResolveUser(uid) ELSE SynthesizedUser(uid)

(***************************************************************************)
(* Store helpers                                                           *)
(***************************************************************************)
\* the handlers suspended at an await form a bag of request records
Pending == BagToSet(inflight)

CanSuspend == BagCardinality(inflight) < MaxInflight

Suspend(q) == inflight (+) SetToBag({q})

Resume(q) == inflight (-) SetToBag({q})

Closed == [id |-> "none"]

IsOpen(s) == sockets[s].id # "none"

\* doc(uid).update(fields) on 'users': rejected when the document is absent
UpdateUserPoints(us, uid, pts) ==
  IF uid \in DOMAIN us THEN [us EXCEPT ![uid].points = pts] ELSE us

UpdateUserOnline(us, uid, flag) ==
  IF uid \in DOMAIN us THEN [us EXCEPT ![uid].isOnline = flag] ELSE us

TempId == 0

\* the AuthProvider's user value when nobody is signed in (null)
NoUser == [id |-> "none"]

(***************************************************************************)
(* Array helpers (Array.prototype.findIndex / indexOf / splice / push)     *)
(***************************************************************************)
\* index of the first element equal to x, 0 when there is none
IndexOf(seq, x) ==
  IF \E i \in 1..Len(seq) : seq[i] = x
  THEN CHOOSE i \in 1..Len(seq) : seq[i] = x /\ \A j \in 1..(i - 1) : seq[j] # x
  ELSE 0

\* index of the first reaction entry for the emoji, 0 when there is none
FindReactionIndex(reactions, emoji) ==
  IF \E i \in 1..Len(reactions) : reactions[i].emoji = emoji
  THEN CHOOSE i \in 1..Len(reactions) :
         /\ reactions[i].emoji = emoji
         /\ \A j \in 1..(i - 1) : reactions[j].emoji # emoji
  ELSE 0

\* seq.splice(i, 1)
Splice(seq, i) == SubSeq(seq, 1, i - 1) \o SubSeq(seq, i + 1, Len(seq))

(***************************************************************************)
(* message:reaction -- the reactions list the handler computes from the    *)
(* document it read                                                        *)
(***************************************************************************)
ToggleReactionNoCount(reactions, uid, emoji) ==
  LET i == FindReactionIndex(reactions, emoji)
  IN IF i > 0
     THEN LET existing == reactions[i]
              ui == IndexOf(existing.userIds, uid)
          IN IF ui > 0
             THEN LET ids == Splice(existing.userIds, ui)
                  IN IF Len(ids) = 0
                     THEN Splice(reactions, i)
                     ELSE [reactions EXCEPT ![i] = [existing EXCEPT !.userIds = ids]]
             ELSE [reactions EXCEPT ![i] =
                     [existing EXCEPT !.userIds = Append(existing.userIds, uid),
                                      !.count = Len(existing.userIds) + 1]]
     ELSE Append(reactions, [emoji |-> emoji, userIds |-> <<uid>>, count |-> 1])

ToggleReactionKeepEmpty(reactions, uid, emoji) ==
  LET i == FindReactionIndex(reactions, emoji)
  IN IF i > 0
     THEN LET existing == reactions[i]
              ui == IndexOf(existing.userIds, uid)
          IN IF ui > 0
             THEN LET ids == Splice(existing.userIds, ui)
                  IN [reactions EXCEPT ![i] =
                        [existing EXCEPT !.userIds = ids, !.count = Len(ids)]]
             ELSE [reactions EXCEPT ![i] =
                     [existing EXCEPT !.userIds = Append(existing.userIds, uid),
                                      !.count = Len(existing.userIds) + 1]]
     ELSE Append(reactions, [emoji |-> emoji, userIds |-> <<uid>>, count |-> 1])

ToggleReaction(reactions, uid, emoji) ==
  LET i == FindReactionIndex(reactions, emoji)
  IN IF i > 0
     THEN LET existing == reactions[i]
              ui == IndexOf(existing.userIds, uid)
          IN IF ui > 0
             THEN \* remove the user's reaction; drop the entry when it is empty
                  LET ids == Splice(existing.userIds, ui)
                      upd == [existing EXCEPT !.userIds = ids, !.count = Len(ids)]
                  IN IF upd.count = 0
                     THEN Splice(reactions, i)
                     ELSE [reactions EXCEPT ![i] = upd]
             ELSE \* add the user's reaction
                  LET ids == Append(existing.userIds, uid)
                  IN [reactions EXCEPT ![i] =
                        [existing EXCEPT !.userIds = ids, !.count = Len(ids)]]
     ELSE \* create a new reaction entry
          Append(reactions, [emoji |-> emoji, userIds |-> <<uid>>, count |-> 1])

(***************************************************************************)
(* Realtime gateway: connection life cycle                                 *)
(***************************************************************************)
\* io.use + io.on('connection'): authenticate, register, mark online
Connect(s, uid) ==
  /\ ~IsOpen(s)
  /\ LET user == ResolveUser(uid)
     IN /\ sockets' = [sockets EXCEPT ![s] = user]
        /\ onlineUsers' = [onlineUsers EXCEPT ![uid] = s]
        /\ userSockets' = [userSockets EXCEPT ![s] = uid]
        /\ users' = UpdateUserOnline(users, uid, TRUE)
        /\ resp' = [kind |-> "user:online", userId |-> uid]
  /\ UNCHANGED <<messages, nextMsgId, userActivities, inflight>>
  /\ UNCHANGED <<nonChatVars, clientVars>>

\* socket.on('disconnect')
Disconnect(s) ==
  /\ IsOpen(s)
  /\ LET uid == sockets[s].id
     IN /\ onlineUsers' = [onlineUsers EXCEPT ![uid] = "none"]
        /\ userSockets' = [userSockets EXCEPT ![s] = "none"]
        /\ users' = UpdateUserOnline(users, uid, FALSE)
        /\ resp' = [kind |-> "user:offline", userId |-> uid]
  /\ sockets' = [sockets EXCEPT ![s] = Closed]
  /\ UNCHANGED <<messages, nextMsgId, userActivities, inflight>>
  /\ UNCHANGED <<nonChatVars, clientVars>>

(***************************************************************************)
(* The handshake and the connection handler step by step.  A token is the  *)
(* uid it was issued for and what the verifier finds.  The connection      *)
(* handler registers the socket in the presence maps, awaits the isOnline  *)
(* write, and only then attaches the socket's event listeners; a socket    *)
(* whose transport closes during that await has no 'disconnect' listener.  *)
(***************************************************************************)
TokenStates == {"valid", "expired", "revoked", "malformed", "failed"}

NoToken == [uid |-> "none", state |-> "missing"]

Tokens == {NoToken} \cup [uid : Uids, state : TokenStates]

VerifyAnyToken(token) == token.state # "missing"

\* auth.verifyIdToken(token) returns the decoded token, else throws
VerifyIdToken(token) == token.state = "valid"

\* socket.id is new for every connection: nothing in the maps names it
FreshConn(s) ==
  /\ ~IsOpen(s)
  /\ userSockets[s] = "none"
  /\ \A u \in Uids : onlineUsers[u] # s

PendingConnects == {q \in Pending : q.pc = "connect:online"}

\* the transport of s is up
Active(s) ==
  /\ IsOpen(s)
  /\ \A q \in PendingConnects : q.conn = s => ~q.closed

\* the connection handler of s has attached the event listeners
Listening(s) ==
  /\ IsOpen(s)
  /\ \A q \in PendingConnects : q.conn # s

GwFrame ==
  UNCHANGED <<messages, nextMsgId, userActivities, nonChatVars, clientVars>>

\* io.use, and io.on('connection') up to its await
Handshake(s, token, dbOk) ==
  /\ FreshConn(s)
  /\ CanSuspend
  /\ IF token = NoToken \/ ~VerifyIdToken(token)
     THEN \* next(new Error(...)): the connection is refused
          /\ resp' = [kind |-> "connect_error", conn |-> s]
          /\ UNCHANGED <<sockets, onlineUsers, userSockets, inflight>>
     ELSE LET user == ProfileOf(token.uid, dbOk)
          IN /\ sockets' = [sockets EXCEPT ![s] = user]
             /\ onlineUsers' = [onlineUsers EXCEPT ![user.id] = s]
             /\ userSockets' = [userSockets EXCEPT ![s] = user.id]
             /\ inflight' = Suspend([pc |-> "connect:online", conn |-> s,
                                     userId |-> user.id, closed |-> FALSE])
             /\ UNCHANGED resp
  /\ UNCHANGED users
  /\ GwFrame

\* the client goes away while the connection handler awaits: no listener yet
DropDuringConnect(q) ==
  /\ q \in PendingConnects /\ ~q.closed
  /\ inflight' = Resume(q) (+) SetToBag({[q EXCEPT !.closed = TRUE]})
  /\ UNCHANGED <<users, sockets, onlineUsers, userSockets, resp>>
  /\ GwFrame

\* users.doc(id).update({isOnline: true}), the user:online broadcast, and the
\* socket.on(...) registrations
ConnectOnline(q) ==
  /\ q \in PendingConnects
  /\ users' = UpdateUserOnline(users, q.userId, TRUE)
  /\ resp' = [kind |-> "user:online", userId |-> q.userId]
  /\ sockets' = IF q.closed THEN [sockets EXCEPT ![q.conn] = Closed] ELSE sockets
  /\ inflight' = Resume(q)
  /\ UNCHANGED <<onlineUsers, userSockets>>
  /\ GwFrame

\* the connections of uid whose transport is up
ActiveConnsOf(uid) == {s \in Conns : Active(s) /\ sockets[s].id = uid}

\* sendNotificationToUser(userId, notification): io.to(socketId).emit
SendNotificationToUser(uid, n) ==
  /\ LET socketId == onlineUsers[uid]
     IN resp' = IF socketId # "none"
                THEN [kind |-> "notification", userId |-> uid, to |-> socketId,
                      delivered |-> socketId \in ActiveConnsOf(uid), data |-> n]
                ELSE [kind |-> "notification", userId |-> uid, to |-> "none",
                      delivered |-> FALSE, data |-> n]
  /\ UNCHANGED <<users, sockets, onlineUsers, userSockets, inflight>>
  /\ GwFrame

(***************************************************************************)
(* Sending a message                                                       *)
(***************************************************************************)
ClientPayloads ==
  [content : Strings \cup {Undefined}, authorId : Uids, authorName : {"Mallory"}]

NewMessageFromPayload(data, user) ==
  [content |-> trim(data.content), authorId |-> data.authorId,
   authorName |-> data.authorName, authorBatch |-> user.batch,
   edited |-> FALSE, reactions |-> <<>>]

NewMessageUntrimmed(data, user) ==
  [content |-> data.content, authorId |-> user.id, authorName |-> user.name,
   authorBatch |-> user.batch, edited |-> FALSE, reactions |-> <<>>]

\* the document both send handlers build; nothing but content is read from data
NewMessage(data, user) ==
  [content |-> trim(data.content), authorId |-> user.id, authorName |-> user.name,
   authorBatch |-> user.batch, edited |-> FALSE, reactions |-> <<>>]

MessageLogEntry(uid) ==
  [userId |-> uid, type |-> "message", points |-> 1]

\* an answer that reports success
Accepted(status) == status \in {200, 201}

\* the messages collection after messages.add(message)
AddMessage(message) ==
  [i \in DOMAIN messages \cup {nextMsgId} |->
     IF i = nextMsgId THEN message ELSE messages[i]]

\* message:send has no validation: only data.content.trim() can throw
GwSendVerdict(data) == IF data.content = Undefined THEN 500 ELSE 200

\* the collections after an accepted message:send with the store available
GwSendStore(user, data) ==
  [messages       |-> AddMessage(NewMessage(data, user)),
   users          |-> UpdateUserPoints(users, user.id, user.points + 1),
   userActivities |-> userActivities (+) SetToBag({MessageLogEntry(user.id)})]

\* the bound on inserted message documents; every submit of the client's chat
\* form brings room for the two requests it makes
MsgCap == MaxMsgs + 2 * submits

\* socket.on('message:send'); dbOk: whether messages.add succeeds.  The
\* client's variables are left to the step that hands the event over.
GwSend(s, data, dbOk) ==
  /\ IsOpen(s)
  /\ dbOk => nextMsgId <= MsgCap
  /\ LET user == sockets[s]
     IN IF ~Accepted(GwSendVerdict(data))
        THEN \* data.content.trim() throws, the outer catch reports it
             /\ resp' = [kind |-> "error", via |-> "gw", status |-> GwSendVerdict(data)]
             /\ UNCHANGED <<messages, nextMsgId, users, userActivities>>
        ELSE LET message == NewMessage(data, user)
             IN IF dbOk
                THEN /\ messages' = GwSendStore(user, data).messages
                     /\ nextMsgId' = nextMsgId + 1
                     /\ users' = GwSendStore(user, data).users
                     /\ userActivities' = GwSendStore(user, data).userActivities
                     /\ resp' = [kind |-> "message:send", via |-> "gw", status |-> 200,
                                 user |-> user, payload |-> data,
                                 id |-> nextMsgId, data |-> message]
                ELSE /\ resp' = [kind |-> "message:send", via |-> "gw", status |-> 200,
                                 user |-> user, payload |-> data,
                                 id |-> TempId, data |-> message]
                     /\ UNCHANGED <<messages, nextMsgId, users, userActivities>>
  /\ UNCHANGED <<sockets, onlineUsers, userSockets, inflight>>
  /\ UNCHANGED nonChatVars

\* authenticateToken in front of POST /chat/messages
RestSendAuth(uid, data) ==
  /\ CanSuspend
  /\ inflight' = Suspend(
                    [pc |-> "rest:send", user |-> ResolveUser(uid), payload |-> data])
  /\ UNCHANGED <<chatVars, resp>>
  /\ UNCHANGED nonChatVars

\* POST /chat/messages: !content || content.trim().length === 0 is a 400
RestSendVerdict(data) ==
  IF data.content = Undefined \/ data.content = <<>> \/ Len(trim(data.content)) = 0
  THEN 400 ELSE 201

\* the collections after an accepted POST /chat/messages with the store available
RestSendStore(user, data) ==
  [messages       |-> AddMessage(NewMessage(data, user)),
   users          |-> users,
   userActivities |-> userActivities]

\* router.post('/messages')
RestSend(r, dbOk) ==
  /\ r \in Pending /\ r.pc = "rest:send"
  /\ dbOk => nextMsgId <= MsgCap
  /\ LET user == r.user
         data == r.payload
     IN IF ~Accepted(RestSendVerdict(data))
        THEN /\ resp' = [kind |-> "error", via |-> "rest",
                         status |-> RestSendVerdict(data)]
             /\ UNCHANGED <<messages, nextMsgId, users, userActivities>>
        ELSE LET message == NewMessage(data, user)
             IN IF dbOk
                THEN /\ messages' = RestSendStore(user, data).messages
                     /\ nextMsgId' = nextMsgId + 1
                     /\ users' = RestSendStore(user, data).users
                     /\ userActivities' = RestSendStore(user, data).userActivities
                     /\ resp' = [kind |-> "message:send", via |-> "rest", status |-> 201,
                                 user |-> user, payload |-> data,
                                 id |-> nextMsgId, data |-> message]
                ELSE /\ resp' = [kind |-> "message:send", via |-> "rest", status |-> 201,
                                 user |-> user, payload |-> data,
                                 id |-> TempId, data |-> message]
                     /\ UNCHANGED <<messages, nextMsgId, users, userActivities>>
  /\ inflight' = Resume(r)
  /\ UNCHANGED <<sockets, onlineUsers, userSockets>>
  /\ UNCHANGED <<nonChatVars, clientVars>>

\* router.put('/profile'): the caller renames themself
UpdateProfile(uid, name) ==
  /\ IF uid \in DOMAIN users
     THEN /\ users' = [users EXCEPT ![uid].name = name]
          /\ resp' = [kind |-> "profile", via |-> "rest", status |-> 200]
     ELSE /\ resp' = [kind |-> "error", via |-> "rest", status |-> 500]
          /\ UNCHANGED users
  /\ UNCHANGED <<messages, nextMsgId, userActivities, sockets, onlineUsers,
                 userSockets, inflight>>
  /\ UNCHANGED <<nonChatVars, clientVars>>

(***************************************************************************)
(* Editing, deleting and reacting to a message.  Each handler first reads  *)
(* the document, decides, and then issues its write; other handlers run    *)
(* between the read and the write.                                         *)
(***************************************************************************)
MsgIds == 1..MaxMsgs

\* message:edit: found, owned by the caller, content.trim() does not throw
GwEditVerdict(user, m, content) ==
  IF m \notin DOMAIN messages THEN 404
  ELSE IF messages[m].authorId # user.id THEN 403
  ELSE IF content = Undefined THEN 500
  ELSE 200

\* socket.on('message:edit'), up to the update it issues
GwEditStart(s, m, content) ==
  /\ IsOpen(s)
  /\ CanSuspend
  /\ LET user == sockets[s]
     IN IF ~Accepted(GwEditVerdict(user, m, content))
        THEN /\ resp' = [kind |-> "error", via |-> "gw",
                         status |-> GwEditVerdict(user, m, content)]
             /\ UNCHANGED inflight
        ELSE /\ inflight' = Suspend(
                               [pc |-> "edit", via |-> "gw", messageId |-> m,
                                content |-> trim(content)])
             /\ UNCHANGED resp
  /\ UNCHANGED chatVars
  /\ UNCHANGED <<nonChatVars, clientVars>>

\* PUT /chat/messages/:id: found, owned by the caller, content.trim() does not throw
RestEditVerdict(user, m, content) ==
  IF m \notin DOMAIN messages THEN 404
  ELSE IF messages[m].authorId # user.id THEN 403
  ELSE IF content = Undefined THEN 500
  ELSE 200

\* router.put('/messages/:id'), up to the update it issues
RestEditStart(uid, m, content) ==
  /\ CanSuspend
  /\ LET user == ResolveUser(uid)
     IN IF ~Accepted(RestEditVerdict(user, m, content))
        THEN /\ resp' = [kind |-> "error", via |-> "rest",
                         status |-> RestEditVerdict(user, m, content)]
             /\ UNCHANGED inflight
        ELSE /\ inflight' = Suspend(
                               [pc |-> "edit", via |-> "rest", messageId |-> m,
                                content |-> trim(content)])
             /\ UNCHANGED resp
  /\ UNCHANGED chatVars
  /\ UNCHANGED <<nonChatVars, clientVars>>

\* the update of an edit, the re-read and the broadcast or response
EditWrite(r) ==
  /\ r \in Pending /\ r.pc = "edit"
  /\ LET m == r.messageId
     IN IF m \in DOMAIN messages
        THEN /\ messages' = [messages EXCEPT ![m].content = r.content,
                                             ![m].edited = TRUE]
             /\ resp' = [kind |-> "message:edit", via |-> r.via,
                         status |-> 200]
        ELSE \* the document was deleted meanwhile: update() rejects
             /\ resp' = [kind |-> "error", via |-> r.via, status |-> 500]
             /\ UNCHANGED messages
  /\ inflight' = Resume(r)
  /\ UNCHANGED <<users, nextMsgId, userActivities, sockets, onlineUsers, userSockets>>
  /\ UNCHANGED <<nonChatVars, clientVars>>

\* message:delete: found, and the caller is the author or an admin
GwDeleteVerdict(user, m) ==
  IF m \notin DOMAIN messages THEN 404
  ELSE IF messages[m].authorId # user.id /\ user.role # "admin" THEN 403
  ELSE 200

\* socket.on('message:delete'), up to the delete it issues
GwDeleteStart(s, m) ==
  /\ IsOpen(s)
  /\ CanSuspend
  /\ LET user == sockets[s]
     IN IF ~Accepted(GwDeleteVerdict(user, m))
        THEN /\ resp' = [kind |-> "error", via |-> "gw",
                         status |-> GwDeleteVerdict(user, m)]
             /\ UNCHANGED inflight
        ELSE /\ inflight' = Suspend(
                               [pc |-> "delete", via |-> "gw", messageId |-> m])
             /\ UNCHANGED resp
  /\ UNCHANGED chatVars
  /\ UNCHANGED <<nonChatVars, clientVars>>

\* DELETE /chat/messages/:id: found, and the caller is the author or an admin
RestDeleteVerdict(user, m) ==
  IF m \notin DOMAIN messages THEN 404
  ELSE IF messages[m].authorId # user.id /\ user.role # "admin" THEN 403
  ELSE 200

\* router.delete('/messages/:id'), up to the delete it issues
RestDeleteStart(uid, m) ==
  /\ CanSuspend
  /\ LET user == ResolveUser(uid)
     IN IF ~Accepted(RestDeleteVerdict(user, m))
        THEN /\ resp' = [kind |-> "error", via |-> "rest",
                         status |-> RestDeleteVerdict(user, m)]
             /\ UNCHANGED inflight
        ELSE /\ inflight' = Suspend(
                               [pc |-> "delete", via |-> "rest", messageId |-> m])
             /\ UNCHANGED resp
  /\ UNCHANGED chatVars
  /\ UNCHANGED <<nonChatVars, clientVars>>

\* doc(id).delete() succeeds whether or not the document still exists
DeleteWrite(r) ==
  /\ r \in Pending /\ r.pc = "delete"
  /\ LET m == r.messageId
     IN /\ messages' = [i \in DOMAIN messages \ {m} |-> messages[i]]
        /\ resp' = [kind |-> "message:delete", via |-> r.via,
                    status |-> 200]
  /\ inflight' = Resume(r)
  /\ UNCHANGED <<users, nextMsgId, userActivities, sockets, onlineUsers, userSockets>>
  /\ UNCHANGED <<nonChatVars, clientVars>>

\* socket.on('message:reaction'), up to the update it issues
GwReactStart(s, m, emoji) ==
  /\ IsOpen(s)
  /\ CanSuspend
  /\ LET user == sockets[s]
     IN IF m \notin DOMAIN messages
        THEN /\ resp' = [kind |-> "error", via |-> "gw", status |-> 404]
             /\ UNCHANGED inflight
        ELSE /\ inflight' = Suspend(
                               [pc |-> "react", via |-> "gw", messageId |-> m,
                                reactions |-> ToggleReaction(messages[m].reactions,
                                                             user.id, emoji)])
             /\ UNCHANGED resp
  /\ UNCHANGED chatVars
  /\ UNCHANGED <<nonChatVars, clientVars>>

\* the update({reactions}) of a reaction, the re-read and the broadcast
ReactWrite(r) ==
  /\ r \in Pending /\ r.pc = "react"
  /\ LET m == r.messageId
     IN IF m \in DOMAIN messages
        THEN /\ messages' = [messages EXCEPT ![m].reactions = r.reactions]
             /\ resp' = [kind |-> "message:reaction", via |-> "gw", status |-> 200]
        ELSE /\ resp' = [kind |-> "error", via |-> "gw", status |-> 500]
             /\ UNCHANGED messages
  /\ inflight' = Resume(r)
  /\ UNCHANGED <<users, nextMsgId, userActivities, sockets, onlineUsers, userSockets>>
  /\ UNCHANGED <<nonChatVars, clientVars>>

(***************************************************************************)
(* Announcements and their likes                                           *)
(***************************************************************************)
AnnIds == 1..MaxAnns

Max(a, b) == IF a >= b THEN a ELSE b

\* router.post('/') of announcements, behind requireRole(['society_head', 'admin'])
CreateAnnouncement(uid, title) ==
  /\ LET user == ResolveUser(uid)
     IN IF user.role \notin {"society_head", "admin"}
        THEN /\ resp' = [kind |-> "error", via |-> "rest", status |-> 403]
             /\ UNCHANGED <<announcements, nextAnnId>>
        ELSE IF title = <<>>
        THEN /\ resp' = [kind |-> "error", via |-> "rest", status |-> 400]
             /\ UNCHANGED <<announcements, nextAnnId>>
        ELSE /\ nextAnnId <= MaxAnns
             /\ announcements' =
                  [i \in DOMAIN announcements \cup {nextAnnId} |->
                     IF i = nextAnnId
                     THEN [title |-> trim(title), authorId |-> user.id,
                           views |-> 0, likes |-> 0]
                     ELSE announcements[i]]
             /\ nextAnnId' = nextAnnId + 1
             /\ resp' = [kind |-> "announcement", via |-> "rest", status |-> 201,
                         id |-> nextAnnId]
  /\ UNCHANGED <<announcementLikes, nextLikeId, inflight>>
  /\ UNCHANGED <<chatVars, fbVars, statusVars, lfVars, docCount, badgeVars, moodVars, clientVars>>

\* the counter a first like writes and reports
LikedCount(likes) == likes + 1

UnlikedCountNoDecrement(likes) == likes

\* the counter an unlike writes and reports
UnlikedCount(likes) == Max(0, likes - 1)

LikeFrame ==
  /\ UNCHANGED <<nextAnnId>>
  /\ UNCHANGED <<chatVars, fbVars, statusVars, lfVars, docCount, badgeVars, moodVars, clientVars>>

\* router.post('/:id/like') up to the read of the announcement
LikeStart(uid, a) ==
  /\ CanSuspend
  /\ IF a \notin DOMAIN announcements
     THEN /\ resp' = [kind |-> "error", via |-> "rest", status |-> 404]
          /\ UNCHANGED inflight
     ELSE /\ inflight' = Suspend([pc |-> "like:query", userId |-> ResolveUser(uid).id,
                                  annId |-> a, likes |-> announcements[a].likes])
          /\ UNCHANGED resp
  /\ UNCHANGED <<announcements, announcementLikes, nextLikeId>>
  /\ LikeFrame

MatchingLikes(a, uid) ==
  {l \in announcementLikes : l.announcementId = a /\ l.userId = uid}

\* the query "has this user liked this announcement"; docs[0] is any match
LikeQuery(q) ==
  /\ q \in Pending /\ q.pc = "like:query"
  /\ IF MatchingLikes(q.annId, q.userId) = {}
     THEN inflight' = Resume(q) (+) SetToBag({[q EXCEPT !.pc = "like:add"]})
     ELSE \E l \in MatchingLikes(q.annId, q.userId) :
            inflight' = Resume(q) (+)
              SetToBag({[pc |-> "like:remove", userId |-> q.userId, annId |-> q.annId,
                         likes |-> q.likes, likeDocId |-> l.id]})
  /\ UNCHANGED <<announcements, announcementLikes, nextLikeId, resp>>
  /\ LikeFrame

\* announcementLikes.add(...)
LikeAdd(q) ==
  /\ q \in Pending /\ q.pc = "like:add"
  /\ nextLikeId <= MaxLikes
  /\ announcementLikes' = announcementLikes \cup
       {[id |-> nextLikeId, announcementId |-> q.annId, userId |-> q.userId]}
  /\ nextLikeId' = nextLikeId + 1
  /\ inflight' = Resume(q) (+) SetToBag({[q EXCEPT !.pc = "like:inc"]})
  /\ UNCHANGED <<announcements, resp>>
  /\ LikeFrame

\* announcementLikes.doc(likeDocId).delete()
LikeRemove(q) ==
  /\ q \in Pending /\ q.pc = "like:remove"
  /\ announcementLikes' = {l \in announcementLikes : l.id # q.likeDocId}
  /\ inflight' = Resume(q) (+)
       SetToBag({[pc |-> "like:dec", userId |-> q.userId, annId |-> q.annId,
                  likes |-> q.likes]})
  /\ UNCHANGED <<announcements, nextLikeId, resp>>
  /\ LikeFrame

\* the update of the likes counter and the response
LikeCount(q) ==
  /\ q \in Pending /\ q.pc \in {"like:inc", "like:dec"}
  /\ LET n == IF q.pc = "like:inc" THEN LikedCount(q.likes) ELSE UnlikedCount(q.likes)
     IN IF q.annId \in DOMAIN announcements
        THEN /\ announcements' = [announcements EXCEPT ![q.annId].likes = n]
             /\ resp' = [kind |-> "like", via |-> "rest", status |-> 200,
                         annId |-> q.annId, userId |-> q.userId,
                         liked |-> (q.pc = "like:inc"), likes |-> n]
        ELSE /\ resp' = [kind |-> "error", via |-> "rest", status |-> 500]
             /\ UNCHANGED announcements
  /\ inflight' = Resume(q)
  /\ UNCHANGED <<announcementLikes, nextLikeId>>
  /\ LikeFrame

(***************************************************************************)
(* Anonymous feedback: submission, voting, status and visibility.  The     *)
(* feedback routes are described by the specification only (sections 3,    *)
(* 4.1 and 8).                                                             *)
(***************************************************************************)
FbIds == 1..MaxFeedback

FbTypes == {"feedback", "complaint", "confession"}

FbStatuses == {"pending", "reviewed", "resolved"}

VoteTypes == {"up", "down"}

Opposite(t) == IF t = "up" THEN "down" ELSE "up"

FbFrame ==
  /\ UNCHANGED inflight
  /\ UNCHANGED <<chatVars, likeVars, statusVars, lfVars, docCount, badgeVars, moodVars, clientVars>>

\* create: a new item starts pending with both counters at 0
SubmitFeedback(uid, type) ==
  /\ nextFbId <= MaxFeedback
  /\ feedback' = [i \in DOMAIN feedback \cup {nextFbId} |->
                    IF i = nextFbId
                    THEN [type |-> type, status |-> "pending",
                          upvotes |-> 0, downvotes |-> 0]
                    ELSE feedback[i]]
  /\ nextFbId' = nextFbId + 1
  /\ resp' = [kind |-> "feedback", via |-> "rest", status |-> 201, id |-> nextFbId]
  /\ UNCHANGED feedbackVotes
  /\ FbFrame

\* status transitions on feedback require role admin
SetFeedbackStatus(uid, f, status) ==
  /\ LET user == ResolveUser(uid)
     IN IF user.role # "admin"
        THEN /\ resp' = [kind |-> "error", via |-> "rest", status |-> 403]
             /\ UNCHANGED feedback
        ELSE IF f \notin DOMAIN feedback
        THEN /\ resp' = [kind |-> "error", via |-> "rest", status |-> 404]
             /\ UNCHANGED feedback
        ELSE /\ feedback' = [feedback EXCEPT ![f].status = status]
             /\ resp' = [kind |-> "feedback:status", via |-> "rest", status |-> 200,
                         id |-> f]
  /\ UNCHANGED <<nextFbId, feedbackVotes>>
  /\ FbFrame

VotesOf(f, uid) == {v \in feedbackVotes : v.feedbackId = f /\ v.userId = uid}

Counter(item, t) == IF t = "up" THEN item.upvotes ELSE item.downvotes

SetCounter(item, t, n) ==
  IF t = "up" THEN [item EXCEPT !.upvotes = n] ELSE [item EXCEPT !.downvotes = n]

VoteSwitchedNoDecrement(item, old) ==
  SetCounter(item, Opposite(old), Counter(item, Opposite(old)) + 1)

\* the item after a vote of type old was switched to the opposite type
VoteSwitched(item, old) ==
  SetCounter(SetCounter(item, old, Max(0, Counter(item, old) - 1)),
             Opposite(old), Counter(item, Opposite(old)) + 1)

\* the item after a vote of type t was removed
VoteRemoved(item, t) == SetCounter(item, t, Max(0, Counter(item, t) - 1))

\* the item after a first vote of type t
VoteAdded(item, t) == SetCounter(item, t, Counter(item, t) + 1)

\* the voting protocol of section 4.1
Vote(uid, f, t) ==
  /\ LET user == ResolveUser(uid)
     IN IF f \notin DOMAIN feedback
        THEN /\ resp' = [kind |-> "error", via |-> "rest", status |-> 404]
             /\ UNCHANGED <<feedback, feedbackVotes>>
        ELSE IF VotesOf(f, user.id) = {}
        THEN \* first-time vote: insert a record, increment one counter
             /\ feedbackVotes' = feedbackVotes \cup
                  {[feedbackId |-> f, userId |-> user.id, voteType |-> t]}
             /\ feedback' = [feedback EXCEPT ![f] = VoteAdded(@, t)]
             /\ resp' = [kind |-> "vote", via |-> "rest", status |-> 200, fbId |-> f,
                         userId |-> user.id, voteType |-> t, outcome |-> "added",
                         upvotes |-> feedback'[f].upvotes,
                         downvotes |-> feedback'[f].downvotes]
        ELSE LET old == CHOOSE v \in VotesOf(f, user.id) : TRUE
             IN IF old.voteType = t
                THEN \* same type again: delete the vote, decrement its counter
                     /\ feedbackVotes' = feedbackVotes \ {old}
                     /\ feedback' = [feedback EXCEPT ![f] = VoteRemoved(@, t)]
                     /\ resp' = [kind |-> "vote", via |-> "rest", status |-> 200,
                                 fbId |-> f, userId |-> user.id, voteType |-> t,
                                 outcome |-> "removed",
                                 upvotes |-> feedback'[f].upvotes,
                                 downvotes |-> feedback'[f].downvotes]
                ELSE \* opposite type: update the record, adjust both counters
                     /\ feedbackVotes' = (feedbackVotes \ {old}) \cup
                          {[old EXCEPT !.voteType = t]}
                     /\ feedback' = [feedback EXCEPT ![f] = VoteSwitched(@, old.voteType)]
                     /\ resp' = [kind |-> "vote", via |-> "rest", status |-> 200,
                                 fbId |-> f, userId |-> user.id, voteType |-> t,
                                 outcome |-> "switched",
                                 upvotes |-> feedback'[f].upvotes,
                                 downvotes |-> feedback'[f].downvotes]
  /\ UNCHANGED nextFbId
  /\ FbFrame

VisibleToEveryone(item, user) == TRUE

\* non-admin callers see confessions always, feedback/complaints once resolved
Visible(item, user) ==
  \/ user.role = "admin"
  \/ item.type = "confession"
  \/ item.status = "resolved"

FbQueries == FbTypes \cup {"any"}

Matches(item, query) == query = "any" \/ item.type = query

\* list, filtered by type
ListFeedback(uid, query) ==
  /\ LET user == ResolveUser(uid)
     IN resp' = [kind |-> "feedback:list", via |-> "rest", status |-> 200,
                 role |-> user.role, query |-> query,
                 data |-> {[id |-> f, item |-> feedback[f]] :
                             f \in {g \in DOMAIN feedback :
                                      /\ Matches(feedback[g], query)
                                      /\ Visible(feedback[g], user)}}]
  /\ UNCHANGED fbVars
  /\ FbFrame

\* get-by-id
GetFeedback(uid, f) ==
  /\ LET user == ResolveUser(uid)
     IN IF f \notin DOMAIN feedback \/ ~Visible(feedback[f], user)
        THEN resp' = [kind |-> "error", via |-> "rest", status |-> 404]
        ELSE resp' = [kind |-> "feedback:get", via |-> "rest", status |-> 200,
                      role |-> user.role, query |-> "any",
                      data |-> {[id |-> f, item |-> feedback[f]]}]
  /\ UNCHANGED fbVars
  /\ FbFrame

(***************************************************************************)
(* Paginated lists.  A list response depends on the store only through     *)
(* the number of documents that match the query, kept in docCount.  A      *)
(* query parameter is <<>> when absent and <<n>> when given as n.          *)
(***************************************************************************)
DefaultPage == 1

DefaultChatLimit == 50

DefaultLimit == 20

QueryValues == {<<>>} \cup {<<n>> : n \in 0..MaxQuery}

\* parseInt(x) || dflt : NaN and 0 are falsy
ParseIntOr(x, dflt) == IF x = <<>> \/ x[1] = 0 THEN dflt ELSE x[1]

Min(a, b) == IF a <= b THEN a ELSE b

\* size of query.offset(offset).limit(limit).get(), or of slice(offset, offset + limit)
PageSize(total, offset, limit) == Max(0, Min(limit, total - offset))

HasMoreOffset(offset, limit, total) == offset + limit < total

HasMoreFullPage(total, limit) == total = limit

ListFrame ==
  /\ UNCHANGED <<docCount, inflight>>
  /\ UNCHANGED <<chatVars, likeVars, fbVars, statusVars, lfVars, badgeVars, moodVars, clientVars>>

ListResponse(endpoint, qp, ql, page, limit, total, count, hasMore) ==
  [kind |-> "list", via |-> "rest", status |-> 200, endpoint |-> endpoint,
   queryPage |-> qp, queryLimit |-> ql, page |-> page, limit |-> limit,
   total |-> total, count |-> count, hasMore |-> hasMore]

\* collection.add(...): one more document matches the list query
StoreDocument ==
  /\ docCount < MaxDocs
  /\ docCount' = docCount + 1
  /\ UNCHANGED <<inflight, resp>>
  /\ UNCHANGED <<chatVars, likeVars, fbVars, statusVars, lfVars, badgeVars, moodVars, clientVars>>

\* GET /chat/messages
ListMessages(qp, ql, dbOk) ==
  /\ LET page  == ParseIntOr(qp, DefaultPage)
         limit == ParseIntOr(ql, DefaultChatLimit)
         count == IF dbOk THEN Min(limit, docCount) ELSE 0
         total == count
     IN resp' = ListResponse("messages", qp, ql, page, limit, total, count,
                             HasMoreFullPage(total, limit))
  /\ ListFrame

\* GET /announcements
ListAnnouncements(qp, ql, dbOk) ==
  /\ LET page   == ParseIntOr(qp, DefaultPage)
         limit  == ParseIntOr(ql, DefaultLimit)
         total  == IF dbOk THEN docCount ELSE 0
         offset == (page - 1) * limit
         count  == IF dbOk THEN PageSize(total, offset, limit) ELSE 0
     IN resp' = ListResponse("announcements", qp, ql, page, limit, total, count,
                             HasMoreOffset((page - 1) * limit, limit, total))
  /\ ListFrame

\* GET /lost-found
ListLostFound(qp, ql, dbOk) ==
  /\ LET page   == ParseIntOr(qp, DefaultPage)
         limit  == ParseIntOr(ql, DefaultLimit)
         total  == IF dbOk THEN docCount ELSE 0
         offset == (page - 1) * limit
     IN resp' = ListResponse("lost-found", qp, ql, page, limit, total,
                             PageSize(total, offset, limit),
                             HasMoreOffset(offset, limit, total))
  /\ ListFrame

\* GET /users
ListUsers(qp, ql, dbOk) ==
  /\ LET page   == ParseIntOr(qp, DefaultPage)
         limit  == ParseIntOr(ql, DefaultLimit)
         total  == docCount
         offset == (page - 1) * limit
     IN IF dbOk
        THEN resp' = ListResponse("users", qp, ql, page, limit, total,
                                  PageSize(total, offset, limit),
                                  HasMoreOffset(offset, limit, total))
        ELSE resp' = [kind |-> "error", via |-> "rest", status |-> 500]
  /\ ListFrame

\* GET /mood, the caller's own entries
ListMoodEntries(qp, ql, dbOk) ==
  /\ LET page   == ParseIntOr(qp, DefaultPage)
         limit  == ParseIntOr(ql, DefaultLimit)
         total  == docCount
         offset == (page - 1) * limit
     IN IF dbOk
        THEN resp' = ListResponse("mood", qp, ql, page, limit, total,
                                  PageSize(total, offset, limit),
                                  HasMoreOffset(offset, limit, total))
        ELSE resp' = [kind |-> "error", via |-> "rest", status |-> 500]
  /\ ListFrame

\* the answer of a list route that does not paginate
PlainListResponse(endpoint, count) ==
  [kind |-> "list", via |-> "rest", status |-> 200, endpoint |-> endpoint,
   count |-> count]

\* GET /status: every matching document, no pagination, no inner try/catch
ListCampusStatus(dbOk) ==
  /\ resp' = IF dbOk THEN PlainListResponse("status", docCount)
             ELSE [kind |-> "error", via |-> "rest", status |-> 500]
  /\ ListFrame

\* GET /badges: the whole catalog, no pagination, no inner try/catch
ListBadges(dbOk) ==
  /\ resp' = IF dbOk THEN PlainListResponse("badges", docCount)
             ELSE [kind |-> "error", via |-> "rest", status |-> 500]
  /\ ListFrame

(***************************************************************************)
(* Campus status: POST /status creates or updates the status of a facility *)
(***************************************************************************)
StatusPoints == 3

ValidStatuses == {"available", "busy", "closed", "maintenance"}

StatusFrame ==
  UNCHANGED <<messages, nextMsgId, userActivities, sockets, onlineUsers, userSockets,
              likeVars, fbVars, lfVars, docCount, badgeVars, moodVars, clientVars>>

\* keywords || []
KeywordsOrNone(keywords) == IF keywords = Undefined THEN <<>> ELSE keywords

StatusData(body, user) ==
  [facility |-> trim(body.facility), status |-> body.status,
   description |-> trim(body.description), updatedBy |-> user.id,
   keywords |-> KeywordsOrNone(body.keywords)]

\* campusStatus.where('facility', '==', facility.trim())
StatusDocsOf(facility) == {i \in DOMAIN campusStatus : campusStatus[i].facility = facility}

\* authentication, validation and the query for the facility's document
StatusStart(uid, body) ==
  /\ CanSuspend
  /\ ResolveUser(uid).points + StatusPoints <= MaxPoints
  /\ LET user == ResolveUser(uid)
     IN IF body.facility = <<>> \/ body.description = <<>>
           \/ body.status \notin ValidStatuses
        THEN /\ resp' = [kind |-> "error", via |-> "rest", status |-> 400]
             /\ UNCHANGED inflight
        ELSE /\ IF StatusDocsOf(trim(body.facility)) # {}
                THEN \E i \in StatusDocsOf(trim(body.facility)) :
                       inflight' = Suspend([pc |-> "status:update", user |-> user,
                                            data |-> StatusData(body, user), docId |-> i])
                ELSE inflight' = Suspend([pc |-> "status:add", user |-> user,
                                          data |-> StatusData(body, user), docId |-> 0])
             /\ UNCHANGED resp
  /\ UNCHANGED <<users, campusStatus, nextStatusId>>
  /\ StatusFrame

\* campusStatus.doc(existingDoc.id).update(statusData) or campusStatus.add(statusData);
\* dbOk: whether the write succeeds (a failure reaches the outer catch)
StatusWrite(q, dbOk) ==
  /\ q \in Pending /\ q.pc \in {"status:update", "status:add"}
  /\ IF ~dbOk
     THEN /\ resp' = [kind |-> "error", via |-> "rest", status |-> 500]
          /\ inflight' = Resume(q)
          /\ UNCHANGED <<campusStatus, nextStatusId>>
     ELSE IF q.pc = "status:update"
     THEN IF q.docId \in DOMAIN campusStatus
          THEN /\ campusStatus' = [campusStatus EXCEPT ![q.docId] = q.data]
               /\ inflight' = Resume(q) (+) SetToBag({[q EXCEPT !.pc = "status:points"]})
               /\ UNCHANGED <<nextStatusId, resp>>
          ELSE /\ resp' = [kind |-> "error", via |-> "rest", status |-> 500]
               /\ inflight' = Resume(q)
               /\ UNCHANGED <<campusStatus, nextStatusId>>
     ELSE /\ nextStatusId <= MaxStatusDocs
          /\ campusStatus' = [i \in DOMAIN campusStatus \cup {nextStatusId} |->
                                IF i = nextStatusId THEN q.data ELSE campusStatus[i]]
          /\ nextStatusId' = nextStatusId + 1
          /\ inflight' = Resume(q) (+)
               SetToBag({[q EXCEPT !.pc = "status:points", !.docId = nextStatusId]})
          /\ UNCHANGED resp
  /\ UNCHANGED users
  /\ StatusFrame

\* users.doc(req.user.id).update({points: req.user.points + 3}) and the response
StatusAward(q) ==
  /\ q \in Pending /\ q.pc = "status:points"
  /\ IF q.user.id \in DOMAIN users
     THEN /\ users' = UpdateUserPoints(users, q.user.id, q.user.points + StatusPoints)
          /\ resp' = [kind |-> "status", via |-> "rest", status |-> 201,
                      id |-> q.docId, data |-> q.data]
     ELSE /\ resp' = [kind |-> "error", via |-> "rest", status |-> 500]
          /\ UNCHANGED users
  /\ inflight' = Resume(q)
  /\ UNCHANGED <<campusStatus, nextStatusId>>
  /\ StatusFrame

(***************************************************************************)
(* Lost and found: report, update, mark returned, delete                   *)
(***************************************************************************)
ReportPoints == 5

ReturnPoints == 10

ItemIds == 1..MaxItems

ReportableStatuses == {"lost", "found"}

LfFrame ==
  UNCHANGED <<messages, nextMsgId, userActivities, sockets, onlineUsers, userSockets,
              likeVars, fbVars, statusVars, docCount, badgeVars, moodVars, clientVars>>

\* POST /lost-found: validation and lostFoundItems.add(item)
ReportItem(uid, body, dbOk) ==
  /\ CanSuspend
  /\ LET user == ResolveUser(uid)
     IN IF body.title = <<>> \/ body.status \notin ReportableStatuses
        THEN /\ resp' = [kind |-> "error", via |-> "rest", status |-> 400]
             /\ UNCHANGED <<lostFoundItems, nextItemId, inflight>>
        ELSE IF ~dbOk
        THEN \* lostFoundItems.add rejects: a temporary id is answered
             /\ resp' = [kind |-> "lf:report", via |-> "rest", status |-> 201,
                         id |-> TempId]
             /\ UNCHANGED <<lostFoundItems, nextItemId, inflight>>
        ELSE /\ nextItemId <= MaxItems
             /\ lostFoundItems' =
                  [i \in DOMAIN lostFoundItems \cup {nextItemId} |->
                     IF i = nextItemId
                     THEN [title |-> trim(body.title), status |-> body.status,
                           reporterId |-> user.id]
                     ELSE lostFoundItems[i]]
             /\ nextItemId' = nextItemId + 1
             /\ inflight' = Suspend([pc |-> "lf:award", user |-> user, id |-> nextItemId])
             /\ UNCHANGED resp
  /\ UNCHANGED users
  /\ LfFrame

\* users.doc(req.user.id).update({points: req.user.points + 5}), failure ignored
ReportAward(q) ==
  /\ q \in Pending /\ q.pc = "lf:award"
  /\ users' = UpdateUserPoints(users, q.user.id, q.user.points + ReportPoints)
  /\ resp' = [kind |-> "lf:report", via |-> "rest", status |-> 201]
  /\ inflight' = Resume(q)
  /\ UNCHANGED lfVars
  /\ LfFrame

MayModify(item, user) == item.reporterId = user.id \/ user.role = "admin"

\* the fields PUT copies from the body; status is not among them
UpdateData(body) ==
  [title |-> IF body.title # <<>> THEN trim(body.title) ELSE <<>>,
   status |-> "undefined"]

ApplyUpdate(item, data) ==
  [item EXCEPT !.title  = IF data.title # <<>> THEN data.title ELSE @,
               !.status = IF data.status # "undefined" THEN data.status ELSE @]

\* PUT /lost-found/:id up to the read of the item
UpdateItemStart(uid, i, body) ==
  /\ CanSuspend
  /\ LET user == ResolveUser(uid)
     IN IF i \notin DOMAIN lostFoundItems
        THEN /\ resp' = [kind |-> "error", via |-> "rest", status |-> 404]
             /\ UNCHANGED inflight
        ELSE IF ~MayModify(lostFoundItems[i], user)
        THEN /\ resp' = [kind |-> "error", via |-> "rest", status |-> 403]
             /\ UNCHANGED inflight
        ELSE /\ inflight' = Suspend([pc |-> "lf:update", id |-> i,
                                     data |-> UpdateData(body)])
             /\ UNCHANGED resp
  /\ UNCHANGED <<users, lfVars>>
  /\ LfFrame

\* lostFoundItems.doc(id).update(updateData); a missing document is tolerated
UpdateItemWrite(q) ==
  /\ q \in Pending /\ q.pc = "lf:update"
  /\ lostFoundItems' = IF q.id \in DOMAIN lostFoundItems
                       THEN [lostFoundItems EXCEPT ![q.id] = ApplyUpdate(@, q.data)]
                       ELSE lostFoundItems
  /\ resp' = [kind |-> "lf:update", via |-> "rest", status |-> 200]
  /\ inflight' = Resume(q)
  /\ UNCHANGED <<users, nextItemId>>
  /\ LfFrame

AlreadyReturnedNever(item) == FALSE

AlreadyReturned(item) == item.status = "returned"

\* POST /lost-found/:id/return up to the read of the item
ReturnStart(uid, i) ==
  /\ CanSuspend
  /\ LET user == ResolveUser(uid)
     IN IF i \notin DOMAIN lostFoundItems
        THEN /\ resp' = [kind |-> "error", via |-> "rest", status |-> 404]
             /\ UNCHANGED inflight
        ELSE IF AlreadyReturned(lostFoundItems[i])
        THEN /\ resp' = [kind |-> "lf:return", via |-> "rest", status |-> 400, id |-> i]
             /\ UNCHANGED inflight
        ELSE /\ inflight' = Suspend([pc |-> "lf:return", id |-> i, user |-> user,
                                     reporterId |-> lostFoundItems[i].reporterId])
             /\ UNCHANGED resp
  /\ UNCHANGED <<users, lfVars>>
  /\ LfFrame

\* lostFoundItems.doc(id).update({status: 'returned', ...})
ReturnWrite(q) ==
  /\ q \in Pending /\ q.pc = "lf:return"
  /\ IF q.id \in DOMAIN lostFoundItems
     THEN /\ lostFoundItems' = [lostFoundItems EXCEPT ![q.id].status = "returned"]
          /\ inflight' = Resume(q) (+) SetToBag({[q EXCEPT !.pc = "lf:reporter"]})
          /\ UNCHANGED resp
     ELSE /\ resp' = [kind |-> "error", via |-> "rest", status |-> 500]
          /\ inflight' = Resume(q)
          /\ UNCHANGED lostFoundItems
  /\ UNCHANGED <<users, nextItemId>>
  /\ LfFrame

\* the reporter's points: users.doc(reporterId).get() and, when the profile
\* exists, update({points: reporterData.points + 10}), taken as one step
ReturnReporter(q) ==
  /\ q \in Pending /\ q.pc = "lf:reporter"
  /\ users' = IF q.reporterId \in DOMAIN users
              THEN UpdateUserPoints(users, q.reporterId,
                                    users[q.reporterId].points + ReturnPoints)
              ELSE users
  /\ inflight' = Resume(q) (+) SetToBag({[q EXCEPT !.pc = "lf:resolver"]})
  /\ UNCHANGED <<lfVars, resp>>
  /\ LfFrame

\* the resolver's points when the resolver is not the reporter, and the response
ReturnResolver(q) ==
  /\ q \in Pending /\ q.pc = "lf:resolver"
  /\ IF q.user.id = q.reporterId
     THEN /\ resp' = [kind |-> "lf:return", via |-> "rest", status |-> 200, id |-> q.id]
          /\ UNCHANGED users
     ELSE IF q.user.id \in DOMAIN users
     THEN /\ users' = UpdateUserPoints(users, q.user.id, q.user.points + ReturnPoints)
          /\ resp' = [kind |-> "lf:return", via |-> "rest", status |-> 200, id |-> q.id]
     ELSE /\ resp' = [kind |-> "error", via |-> "rest", status |-> 500]
          /\ UNCHANGED users
  /\ inflight' = Resume(q)
  /\ UNCHANGED lfVars
  /\ LfFrame

\* DELETE /lost-found/:id up to the read of the item
DeleteItemStart(uid, i) ==
  /\ CanSuspend
  /\ LET user == ResolveUser(uid)
     IN IF i \notin DOMAIN lostFoundItems
        THEN /\ resp' = [kind |-> "error", via |-> "rest", status |-> 404]
             /\ UNCHANGED inflight
        ELSE IF ~MayModify(lostFoundItems[i], user)
        THEN /\ resp' = [kind |-> "error", via |-> "rest", status |-> 403]
             /\ UNCHANGED inflight
        ELSE /\ inflight' = Suspend([pc |-> "lf:delete", id |-> i])
             /\ UNCHANGED resp
  /\ UNCHANGED <<users, lfVars>>
  /\ LfFrame

\* lostFoundItems.doc(id).delete()
DeleteItemWrite(q) ==
  /\ q \in Pending /\ q.pc = "lf:delete"
  /\ lostFoundItems' = [i \in DOMAIN lostFoundItems \ {q.id} |-> lostFoundItems[i]]
  /\ resp' = [kind |-> "lf:delete", via |-> "rest", status |-> 200]
  /\ inflight' = Resume(q)
  /\ UNCHANGED <<users, nextItemId>>
  /\ LfFrame

(***************************************************************************)
(* Mood entries                                                            *)
(***************************************************************************)
MoodPoints == 2

ValidMoods == {"stressed", "tired", "motivated", "happy", "anxious", "focused"}

MoodBodies == [mood : {"happy", "bored", "undefined"}]

\* router.post('/') of mood: validation, moodEntries.add(moodEntry), then the
\* points update; neither write is guarded.  dbOk: whether the insert succeeds
CreateMoodEntry(uid, body, dbOk) ==
  /\ LET user == ResolveUser(uid)
     IN IF body.mood \notin ValidMoods
        THEN /\ resp' = [kind |-> "error", via |-> "rest", status |-> 400]
             /\ UNCHANGED <<moodEntries, nextMoodId, users>>
        ELSE IF ~dbOk
        THEN /\ resp' = [kind |-> "error", via |-> "rest", status |-> 500]
             /\ UNCHANGED <<moodEntries, nextMoodId, users>>
        ELSE /\ nextMoodId <= MaxMoods
             /\ moodEntries' =
                  [i \in DOMAIN moodEntries \cup {nextMoodId} |->
                     IF i = nextMoodId THEN [userId |-> user.id, mood |-> body.mood]
                     ELSE moodEntries[i]]
             /\ nextMoodId' = nextMoodId + 1
             /\ IF user.id \in DOMAIN users
                THEN /\ users' = UpdateUserPoints(users, user.id, user.points + MoodPoints)
                     /\ resp' = [kind |-> "mood", via |-> "rest", status |-> 201,
                                 id |-> nextMoodId]
                ELSE \* users.update rejects after the entry was stored
                     /\ resp' = [kind |-> "error", via |-> "rest", status |-> 500]
                     /\ UNCHANGED users
  /\ UNCHANGED <<messages, nextMsgId, userActivities, sockets, onlineUsers,
                 userSockets, likeVars, fbVars, statusVars, lfVars, docCount,
                 badgeVars, inflight, clientVars>>

(***************************************************************************)
(* REST requests: authenticateToken, requireRole, then the route handler.  *)
(* A request that passed the middleware is a record in flight that names   *)
(* its route and carries req.user and req.body.                            *)
(***************************************************************************)
\* the status authenticateToken answers with; 200 stands for next()
AuthVerdict(token) ==
  CASE token = NoToken -> 401
    [] token.state = "valid" -> 200
    [] token.state = "expired" -> 401
    [] token.state = "revoked" -> 401
    [] token.state = "malformed" -> 401
    [] OTHER -> 403

RestFrame ==
  UNCHANGED <<messages, nextMsgId, sockets, onlineUsers, userSockets, nextLikeId,
              announcementLikes, fbVars, statusVars, lfVars, docCount>>

\* authenticateToken in front of a route; dbOk: whether the profile read succeeds
AuthenticateToken(token, dbOk, route, body) ==
  /\ CanSuspend
  /\ IF ~Accepted(AuthVerdict(token))
     THEN /\ resp' = [kind |-> "error", via |-> "rest", route |-> route,
                      status |-> AuthVerdict(token)]
          /\ UNCHANGED inflight
     ELSE /\ inflight' = Suspend([pc |-> "rest", route |-> route, body |-> body,
                                  user |-> ProfileOf(token.uid, dbOk)])
          /\ UNCHANGED resp
  /\ UNCHANGED <<users, userActivities, announcements, nextAnnId, badgeVars, moodVars, clientVars>>
  /\ RestFrame

\* the requests that passed authenticateToken and wait for the handler of route
Routed(route) == {q \in Pending : q.pc = "rest" /\ q.route = route}

\* requireRole(roles): 403 unless req.user.role is one of roles
RequireAnyRole(roles, user) == 200

RequireRole(roles, user) == IF user.role \in roles THEN 200 ELSE 403

\* the bodies of POST /announcements
AnnouncementBodies == [title : {Undefined, <<"a", " ">>}, content : {Undefined, <<"a">>}]

\* the announcement POST /announcements builds from req.user and req.body
NewAnnouncement(user, body) ==
  [title |-> trim(body.title), content |-> trim(body.content),
   authorId |-> user.id, views |-> 0, likes |-> 0]

\* the answer of POST /announcements
CreateAnnouncementVerdict(user, body) ==
  IF ~Accepted(RequireRole({"society_head", "admin"}, user)) THEN 403
  ELSE IF body.title = Undefined \/ body.content = Undefined THEN 400
  ELSE 201

\* router.post('/') of announcements; dbOk: whether announcements.add succeeds
RestCreateAnnouncement(q, dbOk) ==
  /\ q \in Routed("announcements:create")
  /\ dbOk => nextAnnId <= MaxAnns
  /\ LET status == CreateAnnouncementVerdict(q.user, q.body)
     IN IF ~Accepted(status)
        THEN /\ resp' = [kind |-> "error", via |-> "rest", route |-> q.route,
                         status |-> status]
             /\ UNCHANGED <<announcements, nextAnnId>>
        ELSE IF dbOk
        THEN /\ announcements' =
                  [i \in DOMAIN announcements \cup {nextAnnId} |->
                     IF i = nextAnnId THEN NewAnnouncement(q.user, q.body)
                     ELSE announcements[i]]
             /\ nextAnnId' = nextAnnId + 1
             /\ resp' = [kind |-> "announcement", via |-> "rest", route |-> q.route,
                         status |-> status, id |-> nextAnnId]
        ELSE /\ resp' = [kind |-> "announcement", via |-> "rest", route |-> q.route,
                         status |-> status, id |-> TempId]
             /\ UNCHANGED <<announcements, nextAnnId>>
  /\ inflight' = Resume(q)
  /\ UNCHANGED <<users, userActivities, badgeVars, moodVars, clientVars>>
  /\ RestFrame

\* announcementData.authorId !== req.user.id && req.user.role !== 'admin' is a 403
MayModifyAnnouncement(announcement, user) ==
  announcement.authorId = user.id \/ user.role = "admin"

\* the bodies of PUT /announcements/:id, with the id of the path
AnnouncementUpdates == [id : AnnIds, title : {Undefined, <<"b", " ">>}, content : {Undefined}]

\* updateData: the fields of the body that are present, trimmed
ApplyAnnouncementUpdate(announcement, body) ==
  [announcement EXCEPT
     !.title   = IF body.title # Undefined /\ body.title # <<>>
                 THEN trim(body.title) ELSE @,
     !.content = IF body.content # Undefined /\ body.content # <<>>
                 THEN trim(body.content) ELSE @]

\* the answer of PUT and DELETE /announcements/:id after the read
ModifyAnnouncementVerdict(user, id) ==
  IF id \notin DOMAIN announcements THEN 404
  ELSE IF ~MayModifyAnnouncement(announcements[id], user) THEN 403
  ELSE 200

\* router.put('/:id') and router.delete('/:id') of announcements up to the write
ModifyAnnouncementStart(q) ==
  /\ q \in Routed("announcements:update") \cup Routed("announcements:delete")
  /\ LET status == ModifyAnnouncementVerdict(q.user, q.body.id)
     IN IF ~Accepted(status)
        THEN /\ resp' = [kind |-> "error", via |-> "rest", route |-> q.route,
                         status |-> status]
             /\ inflight' = Resume(q)
        ELSE /\ inflight' = Resume(q) (+) SetToBag({[q EXCEPT !.pc = "ann:write"]})
             /\ UNCHANGED resp
  /\ UNCHANGED <<users, userActivities, announcements, nextAnnId, badgeVars, moodVars, clientVars>>
  /\ RestFrame

\* announcements.doc(id).update(updateData) and the re-read
UpdateAnnouncementWrite(q) ==
  /\ q \in Pending /\ q.pc = "ann:write" /\ q.route = "announcements:update"
  /\ IF q.body.id \in DOMAIN announcements
     THEN /\ announcements' =
               [announcements EXCEPT ![q.body.id] = ApplyAnnouncementUpdate(@, q.body)]
          /\ resp' = [kind |-> "announcement", via |-> "rest", route |-> q.route,
                      status |-> 200, id |-> q.body.id]
     ELSE \* the document was deleted meanwhile: update() rejects
          /\ resp' = [kind |-> "error", via |-> "rest", route |-> q.route,
                      status |-> 500]
          /\ UNCHANGED announcements
  /\ inflight' = Resume(q)
  /\ UNCHANGED <<users, userActivities, nextAnnId, badgeVars, moodVars, clientVars>>
  /\ RestFrame

\* announcements.doc(id).delete()
DeleteAnnouncementWrite(q) ==
  /\ q \in Pending /\ q.pc = "ann:write" /\ q.route = "announcements:delete"
  /\ announcements' =
       [i \in DOMAIN announcements \ {q.body.id} |-> announcements[i]]
  /\ resp' = [kind |-> "announcement", via |-> "rest", route |-> q.route,
              status |-> 200, id |-> q.body.id]
  /\ inflight' = Resume(q)
  /\ UNCHANGED <<users, userActivities, nextAnnId, badgeVars, moodVars, clientVars>>
  /\ RestFrame

\* socket.on('announcement:new'); dbOk: whether the read of the announcement succeeds
GwAnnouncementNew(s, announcementId, dbOk) ==
  /\ Listening(s)
  /\ resp' = IF sockets[s].role \notin {"society_head", "admin"}
             THEN [kind |-> "error", via |-> "gw", conn |-> s,
                   message |-> "Insufficient permissions"]
             ELSE IF ~dbOk
             THEN [kind |-> "error", via |-> "gw", conn |-> s,
                   message |-> "Failed to broadcast announcement"]
             ELSE IF announcementId \notin DOMAIN announcements
             THEN [kind |-> "error", via |-> "gw", conn |-> s,
                   message |-> "Announcement not found"]
             ELSE [kind |-> "announcement:new", via |-> "gw", conn |-> s,
                   id |-> announcementId]
  /\ UNCHANGED <<users, userActivities, announcements, nextAnnId, badgeVars,
                 moodVars, clientVars, inflight>>
  /\ RestFrame

(***************************************************************************)
(* Badges                                                                  *)
(***************************************************************************)
BadgePoints == 20

\* the ids the store generates for catalog documents
AutoBadgeIds == {"b1"}

BadgeLogEntry(uid) ==
  [userId |-> uid, type |-> "badge_earned", points |-> BadgePoints]

ValidCategories == {"helper", "social", "academic", "special"}

\* the bodies of POST /badges; description and icon are as name
BadgeBodies ==
  {[name |-> <<"a">>, category |-> "social"],
   [name |-> Undefined, category |-> "social"],
   [name |-> <<"a">>, category |-> "other"]}

\* the answer of POST /badges before the insert
CreateBadgeVerdict(user, body) ==
  IF ~Accepted(RequireRole({"admin"}, user)) THEN 403
  ELSE IF body.name = Undefined \/ body.name = <<>> THEN 400
  ELSE IF body.category \notin ValidCategories THEN 400
  ELSE 201

\* router.post('/') of badges, behind requireRole(['admin'])
CreateBadge(q, dbOk) ==
  /\ q \in Routed("badges:create")
  /\ LET status == CreateBadgeVerdict(q.user, q.body)
     IN IF ~Accepted(status)
        THEN /\ resp' = [kind |-> "error", via |-> "rest", route |-> q.route,
                         status |-> status]
             /\ UNCHANGED badges
        ELSE IF ~dbOk
        THEN /\ resp' = [kind |-> "error", via |-> "rest", route |-> q.route,
                         status |-> 500]
             /\ UNCHANGED badges
        ELSE \E id \in AutoBadgeIds \ badges :
               /\ badges' = badges \cup {id}
               /\ resp' = [kind |-> "badge", via |-> "rest", route |-> q.route,
                           status |-> 201, id |-> id]
  /\ inflight' = Resume(q)
  /\ UNCHANGED <<users, userActivities, announcements, nextAnnId, moodVars, clientVars>>
  /\ RestFrame

\* the answer of POST /badges/award; dbOk: whether the store answers
AwardVerdictRepeated(user, body, dbOk) ==
  IF ~Accepted(RequireRole({"admin"}, user)) THEN 403
  ELSE IF body.userId = "undefined" \/ body.badgeId = "undefined" THEN 400
  ELSE IF ~dbOk THEN 500
  ELSE IF body.userId \notin DOMAIN users THEN 404
  ELSE IF body.badgeId \notin badges THEN 404
  ELSE 200

AwardVerdict(user, body, dbOk) ==
  IF ~Accepted(RequireRole({"admin"}, user)) THEN 403
  ELSE IF body.userId = "undefined" \/ body.badgeId = "undefined" THEN 400
  ELSE IF ~dbOk THEN 500
  ELSE IF body.userId \notin DOMAIN users THEN 404
  ELSE IF body.badgeId \notin badges THEN 404
  ELSE IF \E i \in DOMAIN users[body.userId].badges :
            users[body.userId].badges[i] = body.badgeId THEN 400
  ELSE 200

\* router.post('/award')
AwardBadge(q, dbOk) ==
  /\ q \in Routed("badges:award")
  /\ LET status == AwardVerdict(q.user, q.body, dbOk)
     IN IF Accepted(status)
        THEN /\ users' = [users EXCEPT
                            ![q.body.userId].badges = Append(@, q.body.badgeId),
                            ![q.body.userId].points = @ + BadgePoints]
             /\ userActivities' =
                  userActivities (+) SetToBag({BadgeLogEntry(q.body.userId)})
             /\ resp' = [kind |-> "badge", via |-> "rest", route |-> q.route,
                         status |-> status, id |-> q.body.badgeId]
        ELSE /\ resp' = [kind |-> "error", via |-> "rest", route |-> q.route,
                         status |-> status]
             /\ UNCHANGED <<users, userActivities>>
  /\ inflight' = Resume(q)
  /\ UNCHANGED <<announcements, nextAnnId, badgeVars, moodVars, clientVars>>
  /\ RestFrame

\* activities.filter(a => a.type === type).length over the caller's log entries
RECURSIVE CountCopies(_)
CountCopies(entries) ==
  IF entries = {} THEN 0
  ELSE LET e == CHOOSE x \in entries : TRUE
       IN CopiesIn(e, userActivities) + CountCopies(entries \ {e})

ActivityCount(uid, type) ==
  CountCopies({e \in BagToSet(userActivities) : e.userId = uid /\ e.type = type})

\* badgeCriteria: the fixed, ordered rule table
BadgeCriteria ==
  << [id |-> "first-message",     over |-> "message",       atLeast |-> 1],
     [id |-> "helpful-finder",    over |-> "lost_found",    atLeast |-> 5],
     [id |-> "mood-tracker",      over |-> "mood_entry",    atLeast |-> 10],
     [id |-> "status-updater",    over |-> "status_update", atLeast |-> 5],
     [id |-> "point-collector",   over |-> "points",        atLeast |-> 100],
     [id |-> "super-contributor", over |-> "points",        atLeast |-> 500] >>

\* criteria.condition()
CriterionMet(c, uid, userPoints) ==
  IF c.over = "points" THEN userPoints >= c.atLeast
  ELSE ActivityCount(uid, c.over) >= c.atLeast

RECURSIVE AppendAll(_, _)
AppendAll(list, items) ==
  IF items = <<>> THEN list
  ELSE AppendAll(Append(list, Head(items).id), Tail(items))

\* router.post('/check-automatic'): any authenticated caller, for the caller's
\* own profile; dbOk: whether the store answers
CheckAutomatic(q, dbOk) ==
  /\ q \in Routed("badges:check")
  /\ LET userId     == q.user.id
         stored     == userId \in DOMAIN users
         userBadges == IF stored THEN users[userId].badges ELSE <<>>
         userPoints == IF stored THEN users[userId].points ELSE 0
         Earned(c)  == /\ \A i \in DOMAIN userBadges : userBadges[i] # c.id
                       /\ CriterionMet(c, userId, userPoints)
         newBadges  == SelectSeq(BadgeCriteria, Earned)
         created    == {newBadges[i].id : i \in DOMAIN newBadges}
     IN IF ~dbOk
        THEN /\ resp' = [kind |-> "error", via |-> "rest", route |-> q.route,
                         status |-> 500]
             /\ UNCHANGED <<users, userActivities, badges>>
        ELSE IF newBadges # <<>> /\ ~stored
        THEN \* the catalog entries are written, then users.update rejects
             /\ badges' = badges \cup created
             /\ resp' = [kind |-> "error", via |-> "rest", route |-> q.route,
                         status |-> 500]
             /\ UNCHANGED <<users, userActivities>>
        ELSE /\ badges' = badges \cup created
             /\ users' = IF newBadges = <<>> THEN users
                         ELSE [users EXCEPT
                                 ![userId].badges = AppendAll(@, newBadges),
                                 ![userId].points =
                                    userPoints + Len(newBadges) * BadgePoints]
             /\ userActivities' =
                  IF newBadges = <<>> THEN userActivities
                  ELSE userActivities (+)
                         [e \in {BadgeLogEntry(userId)} |-> Len(newBadges)]
             /\ resp' = [kind |-> "badges", via |-> "rest", route |-> q.route,
                         status |-> 200, count |-> Len(newBadges)]
  /\ inflight' = Resume(q)
  /\ UNCHANGED <<announcements, nextAnnId, moodVars, clientVars>>
  /\ RestFrame

(***************************************************************************)
(* Initial state: the store holds the profiles the client wrote at         *)
(* registration; u3 has authenticated but has no profile document.         *)
(***************************************************************************)
InitialUsers ==
  [u \in {"u1", "u2"} |->
     [id |-> u, name |-> TokenClaims[u].name,
      batch |-> IF u = "u1" THEN "22L" ELSE "21L",
      role |-> IF u = "u1" THEN "student" ELSE "admin",
      points |-> 0, badges |-> <<>>, isOnline |-> FALSE]]

Init ==
  /\ users = InitialUsers
  /\ messages = <<>>
  /\ nextMsgId = 1
  /\ userActivities = EmptyBag
  /\ sockets = [s \in Conns |-> Closed]
  /\ onlineUsers = [u \in Uids |-> "none"]
  /\ userSockets = [s \in Conns |-> "none"]
  /\ announcements = <<>>
  /\ nextAnnId = 1
  /\ announcementLikes = {}
  /\ nextLikeId = 1
  /\ feedback = <<>>
  /\ nextFbId = 1
  /\ feedbackVotes = {}
  /\ campusStatus = <<>>
  /\ nextStatusId = 1
  /\ lostFoundItems = <<>>
  /\ nextItemId = 1
  /\ docCount = 0
  /\ badges = {}
  /\ moodEntries = <<>>
  /\ nextMoodId = 1
  /\ inflight = EmptyBag
  /\ resp = [kind |-> "none"]
  /\ submits = 0
  /\ outbox = {}
  /\ authUser = NoUser
  /\ initializing = EmptyBag
  /\ clientSockets = <<>>
  /\ socket = 0
  /\ chatList = <<>>

(***************************************************************************)
(* The chat store under the gateway and REST message handlers              *)
(***************************************************************************)
ChatUids == {"u1", "u2"}

ChatPayloads == {[content |-> <<"a">>, authorId |-> "u1", authorName |-> "Mallory"]}

ChatEmojis == {"e1"}

EditContents == {<<"a", "a">>}

ChatLogins == {<<"s1", "u1">>, <<"s2", "u2">>}

NextChat ==
  \/ \E l \in ChatLogins : Connect(l[1], l[2])
  \/ \E s \in Conns, d \in ChatPayloads : GwSend(s, d, TRUE) /\ UNCHANGED clientVars
  \/ \E s \in Conns, m \in MsgIds, c \in EditContents : GwEditStart(s, m, c)
  \/ \E r \in Pending : EditWrite(r)
  \/ \E s \in Conns, m \in MsgIds : GwDeleteStart(s, m)
  \/ \E r \in Pending : DeleteWrite(r)
  \/ \E s \in Conns, m \in MsgIds, e \in ChatEmojis : GwReactStart(s, m, e)
  \/ \E r \in Pending : ReactWrite(r)

SpecChat == Init /\ [][NextChat]_vars

(***************************************************************************)
(* Reactions with the handlers run one after the other (two emojis)        *)
(***************************************************************************)
Quiescent == inflight = EmptyBag

NextReact ==
  \/ \E l \in ChatLogins : Connect(l[1], l[2])
  \/ \E s \in Conns, d \in ChatPayloads : GwSend(s, d, TRUE) /\ UNCHANGED clientVars
  \/ \E s \in Conns, m \in MsgIds, e \in Emojis : Quiescent /\ GwReactStart(s, m, e)
  \/ \E r \in Pending : ReactWrite(r)

SpecReact == Init /\ [][NextReact]_vars

(***************************************************************************)
(* Sending through both entry points while profiles are renamed            *)
(***************************************************************************)
ProfileNames == {"Zed"}

SendUids == {"u1", "u3"}

SendLogins == {<<"s1", "u1">>, <<"s2", "u3">>}

SendPayloads == {d \in ClientPayloads : d.authorId = "u2"}

NextSend ==
  \/ \E l \in SendLogins : Connect(l[1], l[2])
  \/ \E u \in SendUids, n \in ProfileNames : UpdateProfile(u, n)
  \/ \E s \in Conns, d \in SendPayloads, ok \in BOOLEAN :
        GwSend(s, d, ok) /\ UNCHANGED clientVars
  \/ \E u \in SendUids, d \in SendPayloads : Quiescent /\ RestSendAuth(u, d) /\ UNCHANGED clientVars
  \/ \E r \in Pending, ok \in BOOLEAN : RestSend(r, ok)

SpecSend == Init /\ [][NextSend]_vars

(***************************************************************************)
(* Properties of the message store                                         *)
(***************************************************************************)
Range(seq) == {seq[i] : i \in 1..Len(seq)}

ToggleTwice(reactions, uid, emoji) ==
  ToggleReaction(ToggleReaction(reactions, uid, emoji), uid, emoji)

HasReacted(reactions, uid, emoji) ==
  \E i \in 1..Len(reactions) :
    reactions[i].emoji = emoji /\ uid \in Range(reactions[i].userIds)

\* the reactions as a mapping: one triple per entry, user ids as a set
ReactionState(reactions) ==
  {<<reactions[i].emoji, Range(reactions[i].userIds), reactions[i].count>> :
     i \in 1..Len(reactions)}

SameReactionState(a, b) ==
  /\ Len(a) = Len(b)
  /\ ReactionState(a) = ReactionState(b)

\* C1 (as claimed): for every stored message m, user u and emoji e, two
\* message:reaction toggles of (m,u,e) run in succession leave the reactions
\* list of m equal, as a list, to its value before the first toggle.
C1_ToggleTwiceSameList ==
  \A m \in DOMAIN messages : \A u \in ChatUids, e \in Emojis :
    ToggleTwice(messages[m].reactions, u, e) = messages[m].reactions

\* C1 (amended): two toggles of (m,u,e) in succession leave the same entries
\* (emoji, set of user ids, count) as before, possibly in another order; the
\* list itself is unchanged when u had not reacted to m with e beforehand.
C1_ToggleTwiceSameState ==
  \A m \in DOMAIN messages : \A u \in ChatUids, e \in Emojis :
    LET before == messages[m].reactions
        after  == ToggleTwice(before, u, e)
    IN /\ SameReactionState(after, before)
       /\ ~HasReacted(before, u, e) => after = before

\* a toggle has run on a message that holds two entries, the first one with
\* two users: both kinds of reordering are possible from here
C1_Witness ==
  /\ resp.kind = "message:reaction"
  /\ \E m \in DOMAIN messages :
       /\ Len(messages[m].reactions) = 2
       /\ Len(messages[m].reactions[1].userIds) = 2

\* C2: in every reachable state, under any interleaving of send, edit, delete
\* and reaction handlers, every reaction entry of every stored message has
\* count equal to the number of ids in its userIds list.
C2_CountIsLength ==
  \A m \in DOMAIN messages :
    \A i \in 1..Len(messages[m].reactions) :
      messages[m].reactions[i].count = Len(messages[m].reactions[i].userIds)

\* a user's reaction was removed from an entry another user still holds, on a
\* message that was edited, while another handler is suspended
C2_Witness ==
  /\ resp.kind = "message:reaction"
  /\ inflight # EmptyBag
  /\ \E m \in DOMAIN messages :
       /\ messages[m].edited
       /\ messages[m].reactions # <<>>
       /\ messages[m].reactions[1].userIds = <<"u2">>

IsSpaces(s) == \A i \in 1..Len(s) : s[i] = " "

\* c is input without its leading and trailing whitespace
IsTrimOf(c, input) ==
  /\ c = <<>> \/ (c[1] # " " /\ c[Len(c)] # " ")
  /\ \E i \in 0..Len(input), j \in 0..Len(input) :
       /\ i + Len(c) + j = Len(input)
       /\ IsSpaces(SubSeq(input, 1, i))
       /\ SubSeq(input, i + 1, i + Len(c)) = c
       /\ IsSpaces(SubSeq(input, i + Len(c) + 1, Len(input)))

\* C10: every accepted send (REST or gateway) yields a Message whose authorId,
\* authorName and authorBatch are those of the profile resolved at
\* authentication, whose content is the input without leading and trailing
\* whitespace and whose reactions list is empty; a persisted message is stored
\* with exactly these fields.
C10_SendUsesProfile ==
  resp.kind = "message:send" =>
    /\ resp.data.authorId = resp.user.id
    /\ resp.data.authorName = resp.user.name
    /\ resp.data.authorBatch = resp.user.batch
    /\ IsTrimOf(resp.data.content, resp.payload.content)
    /\ resp.data.reactions = <<>>
    /\ resp.id # TempId => (resp.id \in DOMAIN messages /\ messages[resp.id] = resp.data)

\* a persisted send whose payload named another author, carried surrounding
\* whitespace, and whose sender was renamed after authentication
C10_Witness ==
  /\ resp.kind = "message:send"
  /\ resp.id # TempId
  /\ resp.payload.authorId # resp.user.id
  /\ resp.payload.content # resp.data.content
  /\ resp.user.id \in DOMAIN users
  /\ users[resp.user.id].name # resp.user.name

(***************************************************************************)
(* Likes and votes                                                         *)
(***************************************************************************)
LikeUids == {"u1", "u2"}

Titles == {<<"a">>}

VotedTypes == {"feedback"}

\* like requests overlap at their awaits
NextLike ==
  \/ \E u \in LikeUids, t \in Titles : CreateAnnouncement(u, t)
  \/ \E u \in LikeUids, a \in AnnIds : LikeStart(u, a)
  \/ \E q \in Pending : LikeQuery(q)
  \/ \E q \in Pending : LikeAdd(q)
  \/ \E q \in Pending : LikeRemove(q)
  \/ \E q \in Pending : LikeCount(q)
  \/ \E u \in LikeUids, t \in VotedTypes : SubmitFeedback(u, t)
  \/ \E u \in LikeUids, f \in FbIds, t \in VoteTypes : Vote(u, f, t)

SpecLike == Init /\ [][NextLike]_vars

Voters == {"u1"}

\* every request runs to its response before the next one starts
NextVote ==
  \/ \E u \in LikeUids, t \in Titles : CreateAnnouncement(u, t)
  \/ \E u \in LikeUids, a \in AnnIds : Quiescent /\ LikeStart(u, a)
  \/ \E q \in Pending : LikeQuery(q)
  \/ \E q \in Pending : LikeAdd(q)
  \/ \E q \in Pending : LikeRemove(q)
  \/ \E q \in Pending : LikeCount(q)
  \/ \E u \in Voters, t \in VotedTypes : Quiescent /\ SubmitFeedback(u, t)
  \/ \E u \in Voters, f \in FbIds, t \in VoteTypes : Quiescent /\ Vote(u, f, t)

SpecVote == Init /\ [][NextVote]_vars

\* the votes of two users on feedback items of every type
NextSwitch ==
  \/ \E u \in LikeUids, t \in FbTypes : SubmitFeedback(u, t)
  \/ \E u \in LikeUids, f \in FbIds, t \in VoteTypes : Vote(u, f, t)

SpecSwitch == Init /\ [][NextSwitch]_vars

(***************************************************************************)
(* Feedback visibility                                                     *)
(***************************************************************************)
NextFeedback ==
  \/ \E u \in Uids, t \in FbTypes : SubmitFeedback(u, t)
  \/ \E u \in Uids, f \in FbIds, st \in FbStatuses : SetFeedbackStatus(u, f, st)
  \/ \E u \in Uids, q \in FbQueries : ListFeedback(u, q)
  \/ \E u \in Uids, f \in FbIds : GetFeedback(u, f)

SpecFeedback == Init /\ [][NextFeedback]_vars

(***************************************************************************)
(* Properties of likes and votes                                           *)
(***************************************************************************)
LikesOfPair(likes, a, u) == {l \in likes : l.announcementId = a /\ l.userId = u}

VotesOfPair(votes, f, u) == {v \in votes : v.feedbackId = f /\ v.userId = u}

\* the response that completes a like request of a user with no like yet
\* reports the counter + 1
FirstLikeReportsPlusOne ==
  \A q \in Pending :
    (LikeCount(q) /\ q.pc = "like:inc") =>
      /\ resp'.liked
      /\ resp'.likes = announcements[q.annId].likes + 1
      /\ announcements'[q.annId].likes = resp'.likes

\* a like request completing right after the same user's first like on the
\* same announcement reports and stores the original value, no record left
SecondLikeRestores ==
  \A q \in Pending :
    (/\ LikeCount(q)
     /\ resp.kind = "like" /\ resp.liked
     /\ resp.annId = q.annId /\ resp.userId = q.userId) =>
      /\ ~resp'.liked
      /\ resp'.likes = resp.likes - 1
      /\ announcements'[q.annId].likes = resp.likes - 1
      /\ LikesOfPair(announcementLikes', q.annId, q.userId) = {}

FirstVoteReportsPlusOne ==
  \A u \in LikeUids, f \in DOMAIN feedback, t \in VoteTypes :
    (Vote(u, f, t) /\ VotesOf(f, u) = {}) =>
      /\ resp'.outcome = "added"
      /\ Counter(resp', t) = Counter(feedback[f], t) + 1
      /\ Counter(feedback'[f], t) = Counter(resp', t)

SecondVoteRestores ==
  \A u \in LikeUids, f \in DOMAIN feedback, t \in VoteTypes :
    (/\ Vote(u, f, t)
     /\ resp.kind = "vote" /\ resp.outcome = "added"
     /\ resp.fbId = f /\ resp.userId = u /\ resp.voteType = t) =>
      /\ resp'.outcome = "removed"
      /\ Counter(resp', t) = Counter(resp, t) - 1
      /\ Counter(feedback'[f], t) = Counter(resp, t) - 1
      /\ Counter(feedback'[f], Opposite(t)) = Counter(resp, Opposite(t))
      /\ VotesOfPair(feedbackVotes', f, u) = {}

\* C3: for a user with no vote/like on a subject, submitting the same vote
\* type (or the like) twice in succession ends with no record for (subject,
\* user) and the counter at its value before the first call; the first
\* response reports counter + 1 and the second the original value.
C3_TwiceRestores ==
  [][/\ FirstLikeReportsPlusOne
     /\ SecondLikeRestores
     /\ FirstVoteReportsPlusOne
     /\ SecondVoteRestores]_vars

\* a vote was just taken back, and a like was given and taken back while
\* another user's like stays counted
C3_Witness ==
  /\ resp.kind = "vote" /\ resp.outcome = "removed"
  /\ nextLikeId > 2
  /\ Cardinality(announcementLikes) = 1
  /\ \E a \in DOMAIN announcements : announcements[a].likes = 1

\* C4: a user holding a vote of one type who submits the opposite type has
\* the vote record updated (not duplicated), the old type's counter
\* decreased by exactly 1 but not below 0, the new type's counter increased
\* by exactly 1; upvotes and downvotes are never negative.
C4_SwitchVote ==
  /\ [](\A f \in DOMAIN feedback :
          feedback[f].upvotes >= 0 /\ feedback[f].downvotes >= 0)
  /\ [][\A u \in LikeUids, f \in DOMAIN feedback, t \in VoteTypes :
          (/\ Vote(u, f, t)
           /\ \E v \in VotesOf(f, u) : v.voteType = Opposite(t)) =>
            /\ VotesOfPair(feedbackVotes', f, u) =
                 {[feedbackId |-> f, userId |-> u, voteType |-> t]}
            /\ Cardinality(feedbackVotes') = Cardinality(feedbackVotes)
            /\ Counter(feedback'[f], Opposite(t)) =
                 Max(0, Counter(feedback[f], Opposite(t)) - 1)
            /\ Counter(feedback'[f], t) = Counter(feedback[f], t) + 1]_vars

\* a switch from down to up happened while another user's down vote stands
C4_Witness ==
  /\ resp.kind = "vote" /\ resp.outcome = "switched"
  /\ resp.voteType = "up" /\ resp.upvotes = 1 /\ resp.downvotes = 1

\* C5: in every reachable state there is at most one like/vote record per
\* (subject, user) pair, also while like requests of one user for one
\* announcement overlap at the awaits of the handler.
C5_OneRecordPerPair ==
  /\ \A l \in announcementLikes :
       LikesOfPair(announcementLikes, l.announcementId, l.userId) = {l}
  /\ \A v \in feedbackVotes :
       VotesOfPair(feedbackVotes, v.feedbackId, v.userId) = {v}

(***************************************************************************)
(* Pagination                                                              *)
(***************************************************************************)
NextPage ==
  \/ StoreDocument
  \/ \E qp, ql \in QueryValues, ok \in BOOLEAN : ListMessages(qp, ql, ok)
  \/ \E qp, ql \in QueryValues, ok \in BOOLEAN : ListAnnouncements(qp, ql, ok)
  \/ \E qp, ql \in QueryValues, ok \in BOOLEAN : ListLostFound(qp, ql, ok)
  \/ \E qp, ql \in QueryValues, ok \in BOOLEAN : ListUsers(qp, ql, ok)
  \/ \E qp, ql \in QueryValues, ok \in BOOLEAN : ListMoodEntries(qp, ql, ok)

SpecPage == Init /\ [][NextPage]_vars

\* the response to a call with page = p >= 1 and limit = l >= 1
IsPageCall(r) ==
  /\ r.kind = "list"
  /\ r.queryPage # <<>> /\ r.queryLimit # <<>>
  /\ r.queryPage[1] >= 1 /\ r.queryLimit[1] >= 1

PageContract(r) ==
  LET p == r.queryPage[1]
      l == r.queryLimit[1]
  IN /\ r.count <= l
     /\ r.hasMore <=> ((p - 1) * l + r.count < r.total)

\* C6: every paginated list endpoint called with page = p and limit = l
\* returns at most l items, and hasMore is true if and only if
\* (p-1)*l + returned_count < total, total being the one of the response.
C6_PageContract == IsPageCall(resp) => PageContract(resp)

\* the same contract for the endpoints that page with offset and limit
OffsetListsKeepContract ==
  (IsPageCall(resp) /\ resp.endpoint # "messages") => PageContract(resp)

(***************************************************************************)
(* Campus status                                                           *)
(***************************************************************************)
StatusUids == {"u1", "u3"}

StatusBodies ==
  [facility : {<<>>, <<"a">>, <<"a", " ">>}, status : {"available", "busy", "open"},
   description : {<<"a">>}, keywords : {Undefined, <<"k">>}]

NextStatus ==
  \/ \E u \in StatusUids, b \in StatusBodies : StatusStart(u, b)
  \/ \E q \in Pending : StatusWrite(q, TRUE)
  \/ \E q \in Pending : StatusAward(q)

SpecStatus == Init /\ [][NextStatus]_vars

\* C7: after any sequence of campus-status create calls, also ones for the
\* same trimmed facility name that interleave, the store holds exactly one
\* document per facility name, and its status, description and keywords are
\* those of the latest call for that facility.
C7_OneDocPerFacility ==
  /\ \A i, j \in DOMAIN campusStatus :
       campusStatus[i].facility = campusStatus[j].facility => i = j
  /\ (Quiescent /\ resp.kind = "status") =>
       \A i \in StatusDocsOf(resp.data.facility) : campusStatus[i] = resp.data

(***************************************************************************)
(* Lost and found                                                          *)
(***************************************************************************)
LfUids == {"u1", "u2"}

Reporters == {"u1"}

ReportBodies ==
  [title : {<<"a">>}, status : {"lost", "found", "returned"}]
    \cup {[title |-> <<>>, status |-> "lost"]}

UpdateBodies == [title : {<<"b">>}, status : {"lost"}]

NextLostFound ==
  \/ \E u \in Reporters, b \in ReportBodies : Quiescent /\ ReportItem(u, b, TRUE)
  \/ \E q \in Pending : ReportAward(q)
  \/ \E u \in LfUids, i \in ItemIds, b \in UpdateBodies : UpdateItemStart(u, i, b)
  \/ \E q \in Pending : UpdateItemWrite(q)
  \/ \E u \in LfUids, i \in ItemIds : ReturnStart(u, i)
  \/ \E q \in Pending : ReturnWrite(q)
  \/ \E q \in Pending : ReturnReporter(q)
  \/ \E q \in Pending : ReturnResolver(q)
  \/ \E u \in LfUids, i \in ItemIds : Quiescent /\ DeleteItemStart(u, i)
  \/ \E q \in Pending : DeleteItemWrite(q)

SpecLostFound == Init /\ [][NextLostFound]_vars

\* a stored item changes status only from lost or found to returned, and a
\* new item starts lost or found
OnlyReturnTransitions ==
  /\ \A i \in DOMAIN lostFoundItems \cap DOMAIN lostFoundItems' :
       lostFoundItems'[i].status # lostFoundItems[i].status =>
         /\ lostFoundItems[i].status \in {"lost", "found"}
         /\ lostFoundItems'[i].status = "returned"
  /\ \A i \in DOMAIN lostFoundItems' \ DOMAIN lostFoundItems :
       lostFoundItems'[i].status \in {"lost", "found"}

\* a return request that finds the item returned is answered 400 and changes nothing
ReturnOfReturnedRejected ==
  \A u \in LfUids, i \in DOMAIN lostFoundItems :
    (ReturnStart(u, i) /\ lostFoundItems[i].status = "returned") =>
      /\ resp'.kind = "lf:return" /\ resp'.status = 400
      /\ UNCHANGED <<users, lostFoundItems, inflight>>

\* C8: once an item's status is 'returned' it stays 'returned' until the
\* item is deleted: a further markReturned call on it is rejected with an
\* error and changes nothing, no update (PUT) changes its status, and the
\* only status changes are lost -> returned and found -> returned.
C8_ReturnedIsTerminal ==
  [][OnlyReturnTransitions /\ ReturnOfReturnedRejected]_vars

\* a return was rejected on a returned item whose title an update has rewritten
C8_Witness ==
  /\ resp.kind = "lf:return" /\ resp.status = 400
  /\ resp.id \in DOMAIN lostFoundItems
  /\ lostFoundItems[resp.id].status = "returned"
  /\ lostFoundItems[resp.id].title = <<"b">>

(***************************************************************************)
(* Properties of feedback visibility                                       *)
(***************************************************************************)
IsFeedbackResponse(r) == r.kind \in {"feedback:list", "feedback:get"}

\* nothing unresolved of type feedback or complaint is in the response
HidesUnresolved(r) ==
  \A e \in r.data :
    e.item.type \in {"feedback", "complaint"} => e.item.status = "resolved"

\* every stored confession matching the list query is in the response
ListsConfessions(r) ==
  \A f \in DOMAIN feedback :
    (feedback[f].type = "confession" /\ Matches(feedback[f], r.query)) =>
      [id |-> f, item |-> feedback[f]] \in r.data

\* get-by-id of a stored confession returns it
GetReturnsConfession ==
  \A u \in Uids, f \in DOMAIN feedback :
    (GetFeedback(u, f) /\ feedback[f].type = "confession") =>
      /\ resp'.kind = "feedback:get"
      /\ resp'.data = {[id |-> f, item |-> feedback[f]]}

\* C9: for a caller whose role is not admin, no list or get-by-id feedback
\* response contains an item of type feedback or complaint whose status is
\* not resolved, while every stored confession matching the query is
\* returned whatever its status.
C9_FeedbackVisibility ==
  /\ []((IsFeedbackResponse(resp) /\ resp.role # "admin") =>
          /\ HidesUnresolved(resp)
          /\ resp.kind = "feedback:list" => ListsConfessions(resp))
  /\ [][GetReturnsConfession]_vars

\* a student's list holds a confession that is not resolved
C9_Witness ==
  /\ resp.kind = "feedback:list" /\ resp.role = "student"
  /\ \E e \in resp.data : e.item.type = "confession" /\ e.item.status = "reviewed"

(***************************************************************************)
(* Properties of points for sent messages                                  *)
(***************************************************************************)
\* this step stored a new message
MessagePersisted == nextMsgId' = nextMsgId + 1 /\ nextMsgId \in DOMAIN messages'

\* the step that stores a message adds 1 to its author's stored points and
\* one 'message' entry to the activity log
PersistedSendAwards ==
  MessagePersisted =>
    LET author == messages'[nextMsgId].authorId
    IN /\ author \in DOMAIN users => users'[author].points = users[author].points + 1
       /\ userActivities' = userActivities (+) SetToBag({MessageLogEntry(author)})

\* C11: each persisted message send, through either entry point, raises the
\* author's stored points by exactly 1 and appends exactly one activity-log
\* entry of type 'message', also for several sends over one connection.
C11_SendAwardsPoint == [][PersistedSendAwards]_vars

(***************************************************************************)
(* The two entry points of the chat compared                               *)
(***************************************************************************)
\* send: accepted alike, and accepted sends leave the same collections
SendEntryPointsAgree ==
  \A uid \in SendUids, d \in SendPayloads :
    LET user == ResolveUser(uid)
    IN /\ Accepted(GwSendVerdict(d)) <=> Accepted(RestSendVerdict(d))
       /\ (Accepted(GwSendVerdict(d)) /\ Accepted(RestSendVerdict(d))) =>
            GwSendStore(user, d) = RestSendStore(user, d)

\* edit and delete: accepted alike; an accepted request issues the write
\* that both entry points share
EditDeleteEntryPointsAgree ==
  \A uid \in Uids, m \in MsgIds :
    LET user == ResolveUser(uid)
    IN /\ \A c \in Strings \cup {Undefined} :
            Accepted(GwEditVerdict(user, m, c)) <=> Accepted(RestEditVerdict(user, m, c))
       /\ Accepted(GwDeleteVerdict(user, m)) <=> Accepted(RestDeleteVerdict(user, m))

\* C12: for the same caller, store state and input, a send, edit or delete
\* through REST and through the gateway are accepted or rejected alike and
\* leave messages, users and userActivities in the same state.
C12_EntryPointsAgree == SendEntryPointsAgree /\ EditDeleteEntryPointsAgree

(***************************************************************************)
(* Presence: connections come and go, notifications are pushed             *)
(***************************************************************************)
PresenceTokens ==
  {NoToken} \cup [uid : {"u1"}, state : TokenStates]
            \cup {[uid |-> "u3", state |-> "valid"]}

Notifications == {"n1"}

NextPresence ==
  \/ \E s \in Conns, t \in PresenceTokens : Handshake(s, t, TRUE)
  \/ \E q \in Pending : DropDuringConnect(q)
  \/ \E q \in Pending : ConnectOnline(q)
  \/ \E s \in Conns : Listening(s) /\ Disconnect(s)
  \/ \E s \in Conns, d \in ChatPayloads : Listening(s) /\ GwSend(s, d, TRUE) /\ UNCHANGED clientVars
  \/ \E u \in Uids, n \in Notifications : SendNotificationToUser(u, n)

SpecPresence == Init /\ [][NextPresence]_vars

(***************************************************************************)
(* Authentication and roles in front of the announcement and badge routes  *)
(***************************************************************************)
RoleTokens ==
  {NoToken} \cup [uid : {"u2"}, state : TokenStates \ {"valid"}]
            \cup [uid : Uids, state : {"valid"}]

NoBody == [none |-> TRUE]

AwardBodies == [userId : {"u1", "undefined"}, badgeId : {"b1"}]

RoleRequests ==
  ({"announcements:create"} \X {b \in AnnouncementBodies : b.content # Undefined})
    \cup ({"badges:award"} \X AwardBodies)
    \cup ({"badges:create"} \X BadgeBodies)
    \cup ({"badges:check"} \X {NoBody})

RoleLogins == {<<"s1", [uid |-> "u1", state |-> "valid"]>>,
               <<"s2", [uid |-> "u2", state |-> "valid"]>>}

RoleSenders == {"s1"}

NextRole ==
  \/ \E t \in RoleTokens, ok \in BOOLEAN, r \in RoleRequests :
        Quiescent /\ AuthenticateToken(t, ok, r[1], r[2])
  \/ \E q \in Pending, ok \in BOOLEAN : RestCreateAnnouncement(q, ok)
  \/ \E q \in Pending, ok \in BOOLEAN : CreateBadge(q, ok)
  \/ \E q \in Pending, ok \in BOOLEAN : AwardBadge(q, ok)
  \/ \E q \in Pending, ok \in BOOLEAN : CheckAutomatic(q, ok)
  \/ \E l \in RoleLogins, ok \in BOOLEAN : Quiescent /\ Handshake(l[1], l[2], ok)
  \/ \E q \in Pending : ConnectOnline(q)
  \/ \E s \in RoleSenders, d \in ChatPayloads :
        Quiescent /\ Listening(s) /\ GwSend(s, d, TRUE) /\ UNCHANGED clientVars
  \/ \E s \in Conns, a \in AnnIds, ok \in BOOLEAN :
        Quiescent /\ GwAnnouncementNew(s, a, ok)

SpecRole == Init /\ [][NextRole]_vars

(***************************************************************************)
(* Ownership: who may edit and delete a message, an announcement, an item  *)
(***************************************************************************)
OwnerUids == {"u1", "u2"}

OwnerTokens == [uid : OwnerUids, state : {"valid"}]

AnnouncementDeletes == [id : AnnIds]

OwnerRequests ==
  ({"announcements:create"} \X {[title |-> <<"a", " ">>, content |-> <<"a">>]})
    \cup ({"announcements:update"} \X {b \in AnnouncementUpdates : b.title # Undefined})
    \cup ({"announcements:delete"} \X AnnouncementDeletes)

OwnerItems == {[title |-> <<"a">>, status |-> "lost"]}

NextOwner ==
  \/ \E t \in OwnerTokens, r \in OwnerRequests :
        Quiescent /\ AuthenticateToken(t, TRUE, r[1], r[2])
  \/ \E q \in Pending : RestCreateAnnouncement(q, TRUE)
  \/ \E q \in Pending : ModifyAnnouncementStart(q)
  \/ \E q \in Pending : UpdateAnnouncementWrite(q)
  \/ \E q \in Pending : DeleteAnnouncementWrite(q)
  \/ \E d \in ChatPayloads : Quiescent /\ RestSendAuth("u1", d) /\ UNCHANGED clientVars
  \/ \E r \in Pending : RestSend(r, TRUE)
  \/ \E u \in OwnerUids, m \in MsgIds, c \in EditContents :
        Quiescent /\ RestEditStart(u, m, c)
  \/ \E r \in Pending : EditWrite(r)
  \/ \E u \in OwnerUids, m \in MsgIds : Quiescent /\ RestDeleteStart(u, m)
  \/ \E r \in Pending : DeleteWrite(r)
  \/ \E b \in OwnerItems : Quiescent /\ ReportItem("u1", b, TRUE)
  \/ \E q \in Pending : ReportAward(q)
  \/ \E u \in OwnerUids, i \in ItemIds, b \in UpdateBodies :
        Quiescent /\ UpdateItemStart(u, i, b)
  \/ \E q \in Pending : UpdateItemWrite(q)
  \/ \E u \in OwnerUids, i \in ItemIds : Quiescent /\ DeleteItemStart(u, i)
  \/ \E q \in Pending : DeleteItemWrite(q)

SpecOwner == Init /\ [][NextOwner]_vars

(***************************************************************************)
(* The create endpoints with a store whose inserts may fail                *)
(***************************************************************************)
CreateAnnouncements == {[title |-> <<"a", " ">>, content |-> <<"a">>]}

CreateItems == {[title |-> <<"a">>, status |-> "lost"], [title |-> <<>>, status |-> "lost"]}

CreateStatuses ==
  {[facility |-> <<"a">>, status |-> "available", description |-> <<"a">>,
    keywords |-> Undefined]}

NextCreate ==
  \/ \E d \in SendPayloads : Quiescent /\ RestSendAuth("u1", d) /\ UNCHANGED clientVars
  \/ \E r \in Pending, ok \in BOOLEAN : RestSend(r, ok)
  \/ \E b \in CreateAnnouncements :
        Quiescent /\ AuthenticateToken([uid |-> "u2", state |-> "valid"], TRUE,
                                       "announcements:create", b)
  \/ \E q \in Pending, ok \in BOOLEAN : RestCreateAnnouncement(q, ok)
  \/ \E b \in CreateItems, ok \in BOOLEAN : Quiescent /\ ReportItem("u1", b, ok)
  \/ \E q \in Pending : ReportAward(q)
  \/ \E b \in MoodBodies, ok \in BOOLEAN : Quiescent /\ CreateMoodEntry("u1", b, ok)
  \/ \E b \in CreateStatuses : Quiescent /\ StatusStart("u1", b)
  \/ \E q \in Pending, ok \in BOOLEAN : StatusWrite(q, ok)
  \/ \E q \in Pending : StatusAward(q)

SpecCreate == Init /\ [][NextCreate]_vars

(***************************************************************************)
(* The list endpoints with a store whose reads may fail                    *)
(***************************************************************************)
NextList ==
  \/ StoreDocument
  \/ \E qp, ql \in QueryValues, ok \in BOOLEAN : ListMessages(qp, ql, ok)
  \/ \E qp, ql \in QueryValues, ok \in BOOLEAN : ListAnnouncements(qp, ql, ok)
  \/ \E qp, ql \in QueryValues, ok \in BOOLEAN : ListLostFound(qp, ql, ok)
  \/ \E qp, ql \in QueryValues, ok \in BOOLEAN : ListUsers(qp, ql, ok)
  \/ \E qp, ql \in QueryValues, ok \in BOOLEAN : ListMoodEntries(qp, ql, ok)
  \/ \E ok \in BOOLEAN : ListCampusStatus(ok)
  \/ \E ok \in BOOLEAN : ListBadges(ok)

SpecList == Init /\ [][NextList]_vars

(***************************************************************************)
(* Properties of the gateway's connections                                 *)
(***************************************************************************)
\* a handshake without a token or with a token that fails verification
\* registers nothing, writes nothing and broadcasts nothing
RefusedHandshakeDoesNothing ==
  \A s \in Conns, t \in Tokens :
    (Handshake(s, t, TRUE) /\ t.state # "valid") =>
      /\ ~IsOpen(s)'
      /\ UNCHANGED <<sockets, onlineUsers, userSockets, users, inflight>>
      /\ resp'.kind = "connect_error"

\* a connection opens only by a handshake with a verified token
OpensOnlyVerified ==
  \A s \in Conns :
    (~IsOpen(s) /\ IsOpen(s)') =>
      \E t \in Tokens : t.state = "valid" /\ Handshake(s, t, TRUE)

\* an event is processed only for an open connection
EventsOnlyWhenOpen ==
  \A s \in Conns, d \in ChatPayloads : GwSend(s, d, TRUE) => IsOpen(s)

\* C13: a gateway connection whose handshake carries no token, or a token
\* that fails verification, never becomes active: it is never added to the
\* presence map, causes no user:online broadcast and no isOnline write, and
\* none of its events is processed.
C13_RefusedNeverActive ==
  [][RefusedHandshakeDoesNothing /\ OpensOnlyVerified /\ EventsOnlyWhenOpen]_vars

\* a handshake on s2 was just refused while s1 is connected
C13_Witness ==
  /\ resp.kind = "connect_error" /\ resp.conn = "s2"
  /\ Listening("s1") /\ ~IsOpen("s2")
  /\ userSockets["s2"] = "none"

\* sendNotificationToUser delivers exactly when the user has an active connection
NotificationReachesUser ==
  \A u \in Uids, n \in Notifications :
    SendNotificationToUser(u, n) =>
      (resp'.delivered <=> ActiveConnsOf(u) # {})

\* C14: after any sequence of connects and disconnects, a notification for
\* a user is delivered to a currently active connection of that user whenever
\* the user has at least one, and nothing is emitted when the user has none.
C14_NotificationReachesUser == [][NotificationReachesUser]_vars

\* the user's first connection is still up, every handler has completed, and
\* the notification was dropped
C14_DroppedWhileConnected ==
  /\ resp.kind = "notification" /\ resp.userId = "u1" /\ resp.to = "none"
  /\ Quiescent /\ Listening("s1") /\ sockets["s1"].id = "u1"

\* every connection of uid is down and no connection handler of uid is pending
AllDisconnected(uid) ==
  /\ \A s \in Conns : IsOpen(s) => sockets[s].id # uid
  /\ \A q \in PendingConnects : q.userId # uid

OfflineAfterLastDisconnect ==
  \A uid \in Uids :
    AllDisconnected(uid) =>
      /\ onlineUsers[uid] = "none"
      /\ uid \in DOMAIN users => ~users[uid].isOnline

DisconnectBroadcastsOffline ==
  \A s \in Conns :
    Disconnect(s) => resp' = [kind |-> "user:offline", userId |-> sockets[s].id]

\* C15: once every connection of a user has disconnected and all connect and
\* disconnect handlers have run to completion, the presence map has no entry
\* for the user, the stored isOnline is false, and each disconnect has
\* broadcast user:offline for the user.
C15_OfflineAfterLastDisconnect ==
  []OfflineAfterLastDisconnect /\ [][DisconnectBroadcastsOffline]_vars

\* the same without a transport close during the connection handler's await
C15_HoldsForListeningSockets ==
  [](\A uid \in Uids :
       (AllDisconnected(uid) /\ \A s \in Conns : userSockets[s] # uid) =>
          /\ onlineUsers[uid] = "none"
          /\ uid \in DOMAIN users => ~users[uid].isOnline)
  /\ [][DisconnectBroadcastsOffline]_vars

(***************************************************************************)
(* Properties of authentication and roles                                  *)
(***************************************************************************)
storeVars == <<users, messages, nextMsgId, userActivities, likeVars, fbVars,
               statusVars, lfVars, badgeVars, moodVars>>

\* a request whose token is missing or fails verification is answered 401,
\* reaches no handler and writes nothing
RefusedWith401 ==
  \A t \in RoleTokens, ok \in BOOLEAN, r \in RoleRequests :
    (AuthenticateToken(t, ok, r[1], r[2]) /\ t.state # "valid") =>
      /\ resp'.kind = "error" /\ resp'.status = 401
      /\ UNCHANGED <<storeVars, inflight>>

\* C16: every REST request to an authenticated route whose bearer token is
\* missing or fails verification for any reason is answered with HTTP 401,
\* the route handler is never invoked, and no store write is performed.
C16_RefusedWith401 == [][RefusedWith401]_vars

\* the same, whatever the status of the refusal
RefusedBeforeHandler ==
  \A t \in RoleTokens, ok \in BOOLEAN, r \in RoleRequests :
    (AuthenticateToken(t, ok, r[1], r[2]) /\ t.state # "valid") =>
      /\ resp'.kind = "error" /\ resp'.status \in {401, 403}
      /\ UNCHANGED <<storeVars, inflight>>

C16_RefusedBeforeHandler == [][RefusedBeforeHandler]_vars

\* the routes that require a role
RoleGated == {"announcements:create", "badges:create", "badges:award"}

\* the handler of request q runs in this step
Handled(q) == q.pc = "rest" /\ inflight' = Resume(q) /\ inflight' # inflight

\* a caller resolved as student is refused by every role-gated route
StudentRefusedByGatedRoutes ==
  \A q \in Pending :
    (Handled(q) /\ q.route \in RoleGated /\ q.user.role = "student") =>
      /\ resp'.kind = "error" /\ resp'.status = 403
      /\ UNCHANGED storeVars

\* a connection resolved as student never triggers the broadcast
StudentNeverBroadcasts ==
  \A s \in Conns, a \in AnnIds, ok \in BOOLEAN :
    (GwAnnouncementNew(s, a, ok) /\ sockets[s].role = "student") =>
      resp'.kind = "error"

\* no request of a caller resolved as student adds a badge to a profile
StudentNeverEarnsBadge ==
  \A q \in Pending :
    (Handled(q) /\ q.user.role = "student") =>
      \A u \in DOMAIN users : users'[u].badges = users[u].badges

\* C18 as stated: a caller whose resolved role is 'student' can never create
\* an announcement, award a badge, or trigger an announcement:new broadcast;
\* each such attempt is rejected, changes no stored document and emits no
\* broadcast.
C18_StudentNeverAwards ==
  [][StudentRefusedByGatedRoutes /\ StudentNeverBroadcasts
       /\ StudentNeverEarnsBadge]_vars

\* C18 amended: a caller whose resolved role is 'student' is refused with 403
\* by POST /announcements, POST /badges and POST /badges/award with no stored
\* document changed, and its announcement:new event is answered with an error
\* and no broadcast; POST /badges/check-automatic is open to every caller.
C18_StudentRefusedByGatedRoutes ==
  [][StudentRefusedByGatedRoutes /\ StudentNeverBroadcasts]_vars

\* a request to award a badge that the catalog holds was just refused for
\* the caller's role, and no profile has a badge
C18_Witness ==
  /\ resp.kind = "error" /\ resp.status = 403 /\ resp.route = "badges:award"
  /\ badges # {}
  /\ \A u \in DOMAIN users : users[u].badges = <<>>

(***************************************************************************)
(* Properties of ownership                                                 *)
(***************************************************************************)
\* an edit by a caller who is not the author or reporter is refused and
\* issues no write
UpdateByOtherRefused ==
  /\ \A u \in OwnerUids, m \in MsgIds, c \in EditContents :
       (RestEditStart(u, m, c) /\ m \in DOMAIN messages
          /\ messages[m].authorId # u) =>
         (resp'.kind = "error" /\ resp'.status = 403 /\ UNCHANGED inflight)
  /\ \A q \in Pending :
       (ModifyAnnouncementStart(q) /\ q.route = "announcements:update"
          /\ q.body.id \in DOMAIN announcements
          /\ announcements[q.body.id].authorId # q.user.id) =>
         (resp'.kind = "error" /\ resp'.status = 403 /\ inflight' = Resume(q))
  /\ \A u \in OwnerUids, i \in ItemIds, b \in UpdateBodies :
       (UpdateItemStart(u, i, b) /\ i \in DOMAIN lostFoundItems
          /\ lostFoundItems[i].reporterId # u) =>
         (resp'.kind = "error" /\ resp'.status = 403 /\ UNCHANGED inflight)

\* a delete is carried out exactly when the caller is the author or reporter
\* or an admin
DeleteByOwnerOrAdmin ==
  /\ \A u \in OwnerUids, m \in MsgIds :
       (RestDeleteStart(u, m) /\ m \in DOMAIN messages) =>
         IF messages[m].authorId = u \/ ResolveUser(u).role = "admin"
         THEN inflight' # inflight
         ELSE resp'.kind = "error" /\ resp'.status = 403 /\ UNCHANGED inflight
  /\ \A q \in Pending :
       (ModifyAnnouncementStart(q) /\ q.route = "announcements:delete"
          /\ q.body.id \in DOMAIN announcements) =>
         IF announcements[q.body.id].authorId = q.user.id \/ q.user.role = "admin"
         THEN inflight' # Resume(q)
         ELSE resp'.kind = "error" /\ resp'.status = 403 /\ inflight' = Resume(q)
  /\ \A u \in OwnerUids, i \in ItemIds :
       (DeleteItemStart(u, i) /\ i \in DOMAIN lostFoundItems) =>
         IF lostFoundItems[i].reporterId = u \/ ResolveUser(u).role = "admin"
         THEN inflight' # inflight
         ELSE resp'.kind = "error" /\ resp'.status = 403 /\ UNCHANGED inflight

\* C17: for Message, Announcement and LostFoundItem, an update request from a
\* caller who is not the author/reporter is rejected and leaves the entity
\* unchanged, whatever the caller's role; a delete request is carried out only
\* if the caller is the author/reporter or has role admin, and is otherwise
\* rejected with the entity still stored.
C17_OwnerOnlyUpdate == [][UpdateByOtherRefused /\ DeleteByOwnerOrAdmin]_vars

\* the delete half alone
C17_DeleteByOwnerOrAdmin == [][DeleteByOwnerOrAdmin]_vars

(***************************************************************************)
(* Properties of the create endpoints under a failing store                *)
(***************************************************************************)
\* the answer reports success with a temporary id and nothing was stored
TempAnswer ==
  /\ Accepted(resp'.status) /\ resp'.id = TempId
  /\ UNCHANGED storeVars

\* messages, announcements and lost-found items wrap the insert in a try
GuardedCreatesAnswerTempId ==
  /\ \A r \in Pending :
       (RestSend(r, FALSE) /\ Accepted(RestSendVerdict(r.payload))) => TempAnswer
  /\ \A q \in Pending :
       (RestCreateAnnouncement(q, FALSE)
          /\ Accepted(CreateAnnouncementVerdict(q.user, q.body))) => TempAnswer
  /\ \A b \in CreateItems :
       (ReportItem("u1", b, FALSE) /\ b.title # <<>>) => TempAnswer

MoodAndStatusAnswerTempId ==
  /\ \A b \in MoodBodies :
       (CreateMoodEntry("u1", b, FALSE) /\ b.mood \in ValidMoods) => TempAnswer
  /\ \A q \in Pending :
       (StatusWrite(q, FALSE) /\ q.pc = "status:add") => TempAnswer

\* C19: for every create endpoint (message, announcement, lost-found item,
\* mood entry, campus status), when the store insert fails the request still
\* completes with a success response that carries a temporary id, never a 5xx
\* error, and no document is stored.
C19_InsertFailureAnswersTempId ==
  [][GuardedCreatesAnswerTempId /\ MoodAndStatusAnswerTempId]_vars

\* the same for messages, announcements and lost-found items only
C19_GuardedCreatesAnswerTempId == [][GuardedCreatesAnswerTempId]_vars

(***************************************************************************)
(* Properties of the list endpoints under a failing store                  *)
(***************************************************************************)
\* a success with an empty list and total 0
EmptyListAnswer ==
  /\ resp'.kind = "list" /\ Accepted(resp'.status)
  /\ resp'.count = 0 /\ resp'.total = 0

\* chat messages, announcements and lost-found wrap the read in a try
GuardedListsAnswerEmpty ==
  \A qp, ql \in QueryValues :
    /\ ListMessages(qp, ql, FALSE) => EmptyListAnswer
    /\ ListAnnouncements(qp, ql, FALSE) => EmptyListAnswer
    /\ ListLostFound(qp, ql, FALSE) => EmptyListAnswer

OtherListsAnswerEmpty ==
  /\ \A qp, ql \in QueryValues :
       /\ ListUsers(qp, ql, FALSE) => EmptyListAnswer
       /\ ListMoodEntries(qp, ql, FALSE) => EmptyListAnswer
  /\ ListCampusStatus(FALSE) => EmptyListAnswer
  /\ ListBadges(FALSE) => EmptyListAnswer

\* C20: for every list endpoint (chat messages, announcements, lost-found,
\* users, mood entries, campus status, badges), when the store read fails the
\* response is a success with an empty data list and total = 0, not an error.
C20_ReadFailureAnswersEmpty ==
  [][GuardedListsAnswerEmpty /\ OtherListsAnswerEmpty]_vars

\* the same for chat messages, announcements and lost-found only
C20_GuardedListsAnswerEmpty == [][GuardedListsAnswerEmpty]_vars

(***************************************************************************)
(* Primary writes followed by auxiliary writes (points, activity log),     *)
(* with a caller who has a stored profile (u1) and one who has none (u3)   *)
(***************************************************************************)
AuxUids == {"u1", "u3"}

AuxLogins == {<<"s1", [uid |-> "u1", state |-> "valid"]>>,
              <<"s2", [uid |-> "u3", state |-> "valid"]>>}

AuxPayloads == {d \in ClientPayloads : d.content = <<"a">> /\ d.authorId = "u1"}

AuxItems == {[title |-> <<"a">>, status |-> "lost"]}

AuxMoods == {[mood |-> "happy"]}

NextAux ==
  \/ \E l \in AuxLogins : Quiescent /\ Handshake(l[1], l[2], TRUE)
  \/ \E q \in Pending : ConnectOnline(q)
  \/ \E s \in Conns, d \in AuxPayloads :
        Quiescent /\ Listening(s) /\ GwSend(s, d, TRUE) /\ UNCHANGED clientVars
  \/ \E b \in AuxItems : Quiescent /\ ReportItem("u1", b, TRUE)
  \/ \E q \in Pending : ReportAward(q)
  \/ \E u \in AuxUids, i \in ItemIds : Quiescent /\ ReturnStart(u, i)
  \/ \E q \in Pending : ReturnWrite(q)
  \/ \E q \in Pending : ReturnReporter(q)
  \/ \E q \in Pending : ReturnResolver(q)
  \/ \E u \in AuxUids, b \in AuxMoods : Quiescent /\ CreateMoodEntry(u, b, TRUE)
  \/ \E u \in AuxUids, b \in CreateStatuses : Quiescent /\ StatusStart(u, b)
  \/ \E q \in Pending : StatusWrite(q, TRUE)
  \/ \E q \in Pending : StatusAward(q)

SpecAux == Init /\ [][NextAux]_vars

\* the steps that answer a request whose primary write is already stored
\* (or is stored by the same step)
AnswersAfterPrimaryWrite ==
  \/ messages' # messages
  \/ moodEntries' # moodEntries
  \/ \E q \in Pending : q.pc = "lf:resolver" /\ ReturnResolver(q)
  \/ \E q \in Pending : q.pc = "status:points" /\ StatusAward(q)

\* the primary write of the answered request is in the store after the step
PrimaryWriteKept ==
  /\ \A i \in DOMAIN messages : i \in DOMAIN messages'
  /\ \A i \in DOMAIN moodEntries : i \in DOMAIN moodEntries'
  /\ \A q \in Pending :
       (q.pc = "lf:resolver" /\ ReturnResolver(q)) =>
          (q.id \in DOMAIN lostFoundItems' /\ lostFoundItems'[q.id].status = "returned")
  /\ \A q \in Pending :
       (q.pc = "status:points" /\ StatusAward(q)) =>
          (q.docId \in DOMAIN campusStatus' /\ campusStatus'[q.docId] = q.data)

AuxFailureStillSucceeds ==
  AnswersAfterPrimaryWrite => (Accepted(resp'.status) /\ PrimaryWriteKept)

\* the gateway send guards each auxiliary write with its own try
GwAuxFailureStillSucceeds ==
  messages' # messages => (Accepted(resp'.status) /\ PrimaryWriteKept)

\* C21: whenever the primary write of an operation succeeded (message stored,
\* lost-found item marked returned, mood entry created, campus status
\* upserted) and a following auxiliary write fails (points update, activity
\* log insert; e.g. the caller has no stored profile document), the caller
\* still receives the success response and the primary write stays stored.
C21_AuxFailureStillSucceeds == [][AuxFailureStillSucceeds]_vars

\* the same for the gateway message:send only
C21_GwAuxFailureStillSucceeds == [][GwAuxFailureStillSucceeds]_vars

\* a caller without a profile document has sent a message over the gateway
C21_GwSentWithoutProfile ==
  /\ resp.kind = "message:send" /\ resp.via = "gw" /\ resp.id # TempId
  /\ resp.user.id \notin DOMAIN users

(***************************************************************************)
(* POST /badges/award                                                      *)
(***************************************************************************)
Holds(uid, b) ==
  uid \in DOMAIN users /\ \E i \in DOMAIN users[uid].badges : users[uid].badges[i] = b

\* what a handled award request does to the target's profile and the log
AwardEffect(q, ok) ==
  LET u == q.body.userId
      b == q.body.badgeId
  IN /\ Accepted(resp'.status) =>
          /\ ~Holds(u, b)
          /\ users'[u].badges = Append(users[u].badges, b)
          /\ users'[u].points = users[u].points + BadgePoints
          /\ \A v \in DOMAIN users \ {u} : users'[v] = users[v]
          /\ userActivities' = userActivities (+) SetToBag({BadgeLogEntry(u)})
     /\ ~Accepted(resp'.status) => UNCHANGED <<users, userActivities>>
     /\ Holds(u, b) => ~Accepted(resp'.status)
     /\ (ok /\ q.user.role = "admin" /\ u \in DOMAIN users /\ b \in badges
            /\ ~Holds(u, b)) => Accepted(resp'.status)

AwardContract ==
  \A q \in Pending, ok \in BOOLEAN :
    (q.pc = "rest" /\ q.route = "badges:award" /\ AwardBadge(q, ok)) => AwardEffect(q, ok)

C22_RejectedRepeat ==
  /\ resp.kind = "error" /\ "route" \in DOMAIN resp
  /\ resp.route = "badges:award" /\ resp.status = 400
  /\ Holds("u1", "b1")

(***************************************************************************)
(* Stored point totals                                                     *)
(***************************************************************************)
PointsNeverDecrease ==
  \A u \in DOMAIN users :
    u \in DOMAIN users' /\ users'[u].points >= users[u].points

\* C23: a user's stored point total never decreases: across any sequence and
\* interleaving of point-awarding operations, every write to users.points
\* stores a value greater than or equal to the value stored just before it.
C23_PointsNeverDecrease == [][PointsNeverDecrease]_vars

\* the writes that add to the stored value (badge award, automatic check)
\* never lower it
StoredPlusNeverDecreases ==
  (\E q \in Pending, ok \in BOOLEAN : AwardBadge(q, ok) \/ CheckAutomatic(q, ok))
     => PointsNeverDecrease

C23_StoredPlusNeverDecreases == [][StoredPlusNeverDecreases]_vars

(***************************************************************************)
(* The chat page: one submit of the form                                   *)
(***************************************************************************)
\* ChatPage.handleSendMessage: sendMessage(messageContent) emits message:send
\* on the socket and sendMessageMutation.mutate(messageContent) posts it.
\* isConnected is taken as: the gateway listens on the user's connection s.
HandleSendMessage(s, messageInput) ==
  /\ submits < MaxSubmits
  /\ trim(messageInput) # <<>> /\ Listening(s)
  /\ submits' = submits + 1
  /\ outbox' = outbox \cup
       {[via |-> "gw", conn |-> s, submit |-> submits + 1,
         data |-> [content |-> trim(messageInput)]],
        [via |-> "rest", uid |-> sockets[s].id, submit |-> submits + 1,
         data |-> [content |-> trim(messageInput)]]}
  /\ UNCHANGED <<chatVars, nonChatVars, inflight, resp>>
  /\ UNCHANGED <<authUser, initializing, clientSockets, socket, chatList>>

\* the emitted event reaches the gateway's message:send listener
DeliverEmit(e) ==
  /\ e \in outbox /\ e.via = "gw"
  /\ GwSend(e.conn, e.data, TRUE)
  /\ outbox' = outbox \ {e}
  /\ UNCHANGED <<submits, authUser, initializing, clientSockets, socket, chatList>>

\* the POST reaches authenticateToken in front of router.post('/messages')
DeliverPost(p) ==
  /\ p \in outbox /\ p.via = "rest"
  /\ RestSendAuth(p.uid, p.data)
  /\ outbox' = outbox \ {p}
  /\ UNCHANGED <<submits, authUser, initializing, clientSockets, socket, chatList>>

SubmitLogins == {<<"s1", [uid |-> "u1", state |-> "valid"]>>,
                 <<"s2", [uid |-> "u2", state |-> "valid"]>>}

NextSubmit ==
  \/ \E l \in SubmitLogins : Handshake(l[1], l[2], TRUE)
  \/ \E q \in Pending : ConnectOnline(q)
  \/ \E s \in Conns, i \in Strings : HandleSendMessage(s, i)
  \/ \E e \in outbox : DeliverEmit(e)
  \/ \E p \in outbox : DeliverPost(p)
  \/ \E r \in Pending : RestSend(r, TRUE)

SpecSubmit == Init /\ [][NextSubmit]_vars

StoredMessages == Cardinality(DOMAIN messages)

\* every request of every submit has been handled
AllHandled ==
  /\ outbox = {}
  /\ \A r \in Pending : r.pc # "rest:send"

\* C24: one submit of the chat form by a connected user results in exactly
\* one message document in the messages collection (not one per entry
\* point), given that the store is available.
C24_OneDocumentPerSubmit ==
  /\ StoredMessages <= submits
  /\ AllHandled => StoredMessages = submits

\* what the code does: one document per entry point for every submit
C24_OneDocumentPerEntryPoint ==
  /\ StoredMessages <= 2 * submits
  /\ AllHandled => StoredMessages = 2 * submits

\* a submit was handled by both entry points
C24_BothHandled == submits = 1 /\ AllHandled

(***************************************************************************)
(* The return bonus of a lost-found item                                   *)
(***************************************************************************)
\* a request passes the 'already returned' test at most once per item: no
\* request goes on to mark, and to grant the bonus for, a returned item
ReturnsOnce ==
  \A q \in Pending :
    (q.pc = "lf:return" /\ ReturnWrite(q) /\ q.id \in DOMAIN lostFoundItems)
       => lostFoundItems[q.id].status # "returned"

\* the reporters of the model report at most MaxItems items and earn at most
\* the report points and one return bonus on each; the others earn at most
\* one return bonus on each item
BonusBound ==
  \A u \in DOMAIN users :
    users[u].points <=
      IF u \in Reporters THEN MaxItems * (ReportPoints + ReturnPoints)
      ELSE MaxItems * ReturnPoints

\* C25: for each lost-found item the return bonus is granted at most once:
\* over any sequence and interleaving of markReturned requests on the same
\* item, at most one request succeeds, and the reporter's points rise by at
\* most 10 and at most one resolver's points rise by 10 on account of it.
C25_BonusAtMostOnce == []BonusBound /\ [][ReturnsOnce]_vars

\* the same for requests that do not overlap: a request that starts after
\* the item was marked returned is answered 400 and grants nothing
SequentialReturnRefused ==
  \A u \in LfUids, i \in ItemIds :
    (ReturnStart(u, i) /\ i \in DOMAIN lostFoundItems
       /\ lostFoundItems[i].status = "returned")
      => (resp'.status = 400 /\ UNCHANGED <<users, lfVars, inflight>>)

C25_SequentialReturnRefused == [][SequentialReturnRefused]_vars

(***************************************************************************)
(* The likes counter of an announcement                                    *)
(***************************************************************************)
LikeRecords(a) == {l \in announcementLikes : l.announcementId = a}

NoLikeInFlight ==
  \A q \in Pending : q.pc \notin {"like:query", "like:add", "like:remove",
                                  "like:inc", "like:dec"}

CounterNeverNegative ==
  \A a \in DOMAIN announcements : announcements[a].likes >= 0

\* C26: whenever no like request is in flight, an announcement's likes
\* counter equals the number of announcementLikes records for that
\* announcement, after any sequence and interleaving of like requests by any
\* users; in particular the counter is never negative.
C26_CounterEqualsRecords ==
  /\ CounterNeverNegative
  /\ NoLikeInFlight =>
       \A a \in DOMAIN announcements :
         announcements[a].likes = Cardinality(LikeRecords(a))

(***************************************************************************)
(* The badge routes step by step: the profile is read at one await and     *)
(* written from that copy at a later one, so requests may overlap          *)
(***************************************************************************)
BadgeRestFrame ==
  /\ UNCHANGED <<announcements, nextAnnId, moodVars, clientVars>>
  /\ RestFrame

\* POST /badges/award up to the hasBadge test: users.doc(userId).get() and
\* badges.doc(badgeId).get()
AwardRead(q, dbOk) ==
  /\ q \in Routed("badges:award")
  /\ LET status == AwardVerdict(q.user, q.body, dbOk)
     IN IF Accepted(status)
        THEN /\ inflight' = Resume(q) (+)
                  SetToBag({[pc |-> "award:write", route |-> q.route, body |-> q.body,
                             userBadges |-> users[q.body.userId].badges,
                             userPoints |-> users[q.body.userId].points]})
             /\ UNCHANGED resp
        ELSE /\ resp' = [kind |-> "error", via |-> "rest", route |-> q.route,
                         status |-> status]
             /\ inflight' = Resume(q)
  /\ UNCHANGED <<users, userActivities, badges>>
  /\ BadgeRestFrame

\* users.update({badges: [...userBadges, earnedBadge], points: points + 20}),
\* the activity entry and the response
AwardWrite(q) ==
  /\ q \in Pending /\ q.pc = "award:write"
  /\ users' = [users EXCEPT
                 ![q.body.userId].badges = Append(q.userBadges, q.body.badgeId),
                 ![q.body.userId].points = q.userPoints + BadgePoints]
  /\ userActivities' = userActivities (+) SetToBag({BadgeLogEntry(q.body.userId)})
  /\ resp' = [kind |-> "badge", via |-> "rest", route |-> q.route,
              status |-> 200, id |-> q.body.badgeId]
  /\ inflight' = Resume(q)
  /\ UNCHANGED badges
  /\ BadgeRestFrame

\* the rows of the table without the hasBadge test
NewBadgesUnfiltered(userId, userBadges, userPoints) ==
  LET Earned(c) == CriterionMet(c, userId, userPoints)
  IN SelectSeq(BadgeCriteria, Earned)

\* the rows of the table the loop pushes to newBadges
NewBadgesFor(userId, userBadges, userPoints) ==
  LET Earned(c) == /\ \A i \in DOMAIN userBadges : userBadges[i] # c.id
                   /\ CriterionMet(c, userId, userPoints)
  IN SelectSeq(BadgeCriteria, Earned)

\* POST /badges/check-automatic: users.doc(userId).get()
CheckRead(q, dbOk) ==
  /\ q \in Routed("badges:check")
  /\ IF ~dbOk
     THEN /\ resp' = [kind |-> "error", via |-> "rest", route |-> q.route,
                      status |-> 500]
          /\ inflight' = Resume(q)
     ELSE LET stored == q.user.id \in DOMAIN users
          IN /\ inflight' = Resume(q) (+)
                  SetToBag({[pc |-> "check:query", route |-> q.route,
                             userId |-> q.user.id,
                             userBadges |-> IF stored THEN users[q.user.id].badges
                                            ELSE <<>>,
                             userPoints |-> IF stored THEN users[q.user.id].points
                                            ELSE 0]})
             /\ UNCHANGED resp
  /\ UNCHANGED <<users, userActivities, badges>>
  /\ BadgeRestFrame

\* the userActivities query and the loop over the table; with nothing new
\* the handler answers at once
CheckQuery(q) ==
  /\ q \in Pending /\ q.pc = "check:query"
  /\ LET newBadges == NewBadgesFor(q.userId, q.userBadges, q.userPoints)
     IN IF newBadges = <<>>
        THEN /\ resp' = [kind |-> "badges", via |-> "rest", route |-> q.route,
                         status |-> 200, count |-> 0]
             /\ inflight' = Resume(q)
        ELSE /\ inflight' = Resume(q) (+)
                  SetToBag({[pc |-> "check:write", route |-> q.route,
                             userId |-> q.userId, userBadges |-> q.userBadges,
                             userPoints |-> q.userPoints, newBadges |-> newBadges]})
             /\ UNCHANGED resp
  /\ UNCHANGED <<users, userActivities, badges>>
  /\ BadgeRestFrame

\* the catalog entries, users.update({badges: [...userBadges, ...newBadges],
\* points: userPoints + bonusPoints}), the activity entries and the response
CheckWrite(q) ==
  /\ q \in Pending /\ q.pc = "check:write"
  /\ badges' = badges \cup {q.newBadges[i].id : i \in DOMAIN q.newBadges}
  /\ IF q.userId \notin DOMAIN users
     THEN /\ resp' = [kind |-> "error", via |-> "rest", route |-> q.route,
                      status |-> 500]
          /\ UNCHANGED <<users, userActivities>>
     ELSE /\ users' = [users EXCEPT
                         ![q.userId].badges = AppendAll(q.userBadges, q.newBadges),
                         ![q.userId].points =
                            q.userPoints + Len(q.newBadges) * BadgePoints]
          /\ userActivities' =
               userActivities (+) [e \in {BadgeLogEntry(q.userId)} |-> Len(q.newBadges)]
          /\ resp' = [kind |-> "badges", via |-> "rest", route |-> q.route,
                      status |-> 200, count |-> Len(q.newBadges)]
  /\ inflight' = Resume(q)
  /\ BadgeRestFrame

BadgeTokens == [uid : {"u1", "u2"}, state : {"valid"}]

BadgeRequests ==
  ({"badges:award"} \X [userId : {"u1"}, badgeId : {"first-message", "b1"}])
    \cup ({"badges:create"} \X {[name |-> <<"a">>, category |-> "social"]})
    \cup ({"badges:check"} \X {NoBody})

BadgeSenders == {<<"s1", [uid |-> "u1", state |-> "valid"]>>}

\* award and check-automatic requests overlap at their awaits
NextBadges ==
  \/ \E t \in BadgeTokens, r \in BadgeRequests : AuthenticateToken(t, TRUE, r[1], r[2])
  \/ \E q \in Pending : CreateBadge(q, TRUE)
  \/ \E q \in Pending : AwardRead(q, TRUE)
  \/ \E q \in Pending : AwardWrite(q)
  \/ \E q \in Pending : CheckRead(q, TRUE)
  \/ \E q \in Pending : CheckQuery(q)
  \/ \E q \in Pending : CheckWrite(q)
  \/ \E l \in BadgeSenders : Quiescent /\ Handshake(l[1], l[2], TRUE)
  \/ \E q \in Pending : ConnectOnline(q)
  \/ \E s \in Conns, d \in AuxPayloads :
        Quiescent /\ Listening(s) /\ GwSend(s, d, TRUE) /\ UNCHANGED clientVars

SpecBadges == Init /\ [][NextBadges]_vars

NoDuplicates(list) ==
  \A i, j \in DOMAIN list : list[i] = list[j] => i = j

\* C27: in every reachable state no user's badges list contains two entries
\* with the same badge id, over any sequence and interleaving of POST
\* /badges/award and POST /badges/check-automatic requests for that user.
C27_NoDuplicateBadges ==
  \A u \in DOMAIN users : NoDuplicates(users[u].badges)

\* an award and an automatic check of the same user overlapped: the check is
\* still waiting to write while the awarded badge is already in the list
C27_Witness ==
  /\ \E q \in Pending :
       /\ q.pc = "check:write" /\ q.userId = "u1"
       /\ users["u1"].badges # <<>> /\ q.userBadges = <<>>
       /\ \E i \in DOMAIN q.newBadges : q.newBadges[i].id = users["u1"].badges[1]

(***************************************************************************)
(* POST /badges/check-automatic called twice in a row                      *)
(***************************************************************************)
\* the point totals u1 may have earned before the calls
EarnedPoints == {0, 80, 100}

InitCheck ==
  \E p \in EarnedPoints :
    /\ users = [InitialUsers EXCEPT !["u1"].points = p]
    /\ messages = <<>> /\ nextMsgId = 1 /\ userActivities = EmptyBag
    /\ sockets = [s \in Conns |-> Closed]
    /\ onlineUsers = [u \in Uids |-> "none"]
    /\ userSockets = [s \in Conns |-> "none"]
    /\ announcements = <<>> /\ nextAnnId = 1
    /\ announcementLikes = {} /\ nextLikeId = 1
    /\ feedback = <<>> /\ nextFbId = 1 /\ feedbackVotes = {}
    /\ campusStatus = <<>> /\ nextStatusId = 1
    /\ lostFoundItems = <<>> /\ nextItemId = 1
    /\ docCount = 0 /\ badges = {}
    /\ moodEntries = <<>> /\ nextMoodId = 1
    /\ inflight = EmptyBag /\ resp = [kind |-> "none"]
    /\ submits = 0 /\ outbox = {} /\ authUser = NoUser
    /\ initializing = EmptyBag /\ clientSockets = <<>> /\ socket = 0
    /\ chatList = <<>>

CheckTokens == [uid : {"u1", "u3"}, state : {"valid"}]

CheckLogins == {<<"s1", [uid |-> "u1", state |-> "valid"]>>,
                <<"s2", [uid |-> "u3", state |-> "valid"]>>}

NextCheck ==
  \/ \E t \in CheckTokens : Quiescent /\ AuthenticateToken(t, TRUE, "badges:check", NoBody)
  \/ \E q \in Pending, ok \in BOOLEAN : CheckAutomatic(q, ok)
  \/ \E l \in CheckLogins : Quiescent /\ Handshake(l[1], l[2], TRUE)
  \/ \E q \in Pending : ConnectOnline(q)
  \/ \E s \in Conns, d \in AuxPayloads :
        Quiescent /\ Listening(s) /\ GwSend(s, d, TRUE) /\ UNCHANGED clientVars

SpecCheck == InitCheck /\ [][NextCheck]_vars

\* what a call made now by uid would push to newBadges
WouldAward(uid) ==
  IF uid \in DOMAIN users
  THEN NewBadgesFor(uid, users[uid].badges, users[uid].points)
  ELSE NewBadgesFor(uid, <<>>, 0)

\* a call that returned leaves nothing for the next call of the same user
FixedPointInOneCall ==
  \A q \in Pending :
    (q.pc = "rest" /\ q.route = "badges:check" /\ CheckAutomatic(q, TRUE)
       /\ Accepted(resp'.status))
      => WouldAward(q.user.id)' = <<>>

\* C28: POST /badges/check-automatic reaches a fixed point in one call: when
\* a call returns and the same user immediately calls it again with no other
\* activity in between, the second call awards no new badge and changes
\* neither the user's badges nor the user's points.
C28_FixedPointInOneCall == [][FixedPointInOneCall]_vars

\* a badge a call awarded is never awarded again by the next call
NoBadgeAwardedAgain ==
  \A q \in Pending :
    (q.pc = "rest" /\ q.route = "badges:check" /\ CheckAutomatic(q, TRUE)
       /\ Accepted(resp'.status))
      => \A i \in DOMAIN WouldAward(q.user.id)' :
           \A j \in DOMAIN users'[q.user.id].badges :
             WouldAward(q.user.id)'[i].id # users'[q.user.id].badges[j]

C28_NoBadgeAwardedAgain == [][NoBadgeAwardedAgain]_vars

(***************************************************************************)
(* The client's SocketProvider under changes of the AuthProvider's user    *)
(***************************************************************************)
ServerFrame == UNCHANGED <<chatVars, nonChatVars, inflight, resp>>

OpenSockets == {i \in DOMAIN clientSockets : clientSockets[i]}

\* useEffect(..., [user]) of SocketProvider up to the first await: with a user
\* that has an id initializeSocket() is called and suspends; without a user
\* the socket held in state, if any, is closed and the state is reset
SocketEffect(user) ==
  IF user # NoUser
  THEN /\ initializing' = initializing (+) SetToBag({[pc |-> "import"]})
       /\ UNCHANGED <<clientSockets, socket>>
  ELSE /\ clientSockets' = IF socket # 0 THEN [clientSockets EXCEPT ![socket] = FALSE]
                           ELSE clientSockets
       /\ socket' = 0
       /\ UNCHANGED initializing

\* setUser with a new object: the effect runs again
SetUser(user) ==
  /\ user # NoUser => BagCardinality(initializing) < MaxInflight
  /\ authUser' = user
  /\ SocketEffect(user)
  /\ UNCHANGED <<submits, outbox, chatList>>
  /\ ServerFrame

\* onAuthStateChanged with a firebase user: setUser(prev ?? basicUser)
SignIn(uid) ==
  /\ authUser = NoUser
  /\ SetUser([id |-> uid, synced |-> FALSE, rev |-> 1])

\* syncUserData resolved: setUser(userData)
SyncedProfile ==
  /\ authUser # NoUser /\ ~authUser.synced /\ authUser.rev < MaxUserChanges
  /\ SetUser([authUser EXCEPT !.synced = TRUE, !.rev = @ + 1])

\* updateUser: setUser({...user, ...userData})
UpdateUser ==
  /\ authUser # NoUser /\ authUser.rev < MaxUserChanges
  /\ SetUser([authUser EXCEPT !.rev = @ + 1])

\* onAuthStateChanged without a firebase user, or logout: setUser(null)
SignOut ==
  /\ authUser # NoUser
  /\ SetUser(NoUser)

\* initializeSocket after its imports: without auth.currentUser it returns,
\* otherwise it goes on to getIdToken and the 500 ms delay
InitializeImported(i) ==
  /\ i \in BagToSet(initializing) /\ i.pc = "import"
  /\ initializing' =
       IF authUser = NoUser THEN initializing (-) SetToBag({i})
       ELSE (initializing (-) SetToBag({i})) (+) SetToBag({[pc |-> "token"]})
  /\ UNCHANGED <<authUser, clientSockets, socket, submits, outbox, chatList>>
  /\ ServerFrame

\* initializeSocket after the token and the delay: io(apiUrl, ...) and
\* setSocket(newSocket)
InitializeSocket(i) ==
  /\ i \in BagToSet(initializing) /\ i.pc = "token"
  /\ Len(clientSockets) < MaxSockets
  /\ initializing' = initializing (-) SetToBag({i})
  /\ clientSockets' = Append(clientSockets, TRUE)
  /\ socket' = Len(clientSockets) + 1
  /\ UNCHANGED <<authUser, submits, outbox, chatList>>
  /\ ServerFrame

NextProvider ==
  \/ \E u \in {"u1", "u2"} : SignIn(u)
  \/ SyncedProfile
  \/ UpdateUser
  \/ SignOut
  \/ \E i \in BagToSet(initializing) : InitializeImported(i)
  \/ \E i \in BagToSet(initializing) : InitializeSocket(i)

SpecProvider == Init /\ [][NextProvider]_vars

\* C29: the client's SocketProvider holds at most one open gateway
\* connection at any time: across any sequence of changes of the
\* authenticated user value, every socket it created earlier is closed before
\* or when a new one is created, and after sign-out no socket it created
\* remains open.
C29_AtMostOneOpenSocket ==
  /\ Cardinality(OpenSockets) <= 1
  /\ (authUser = NoUser /\ initializing = EmptyBag) => OpenSockets = {}

\* the socket held in state is open, and sign-out closes it
C29_HeldSocketOpen ==
  /\ socket # 0 => socket \in OpenSockets
  /\ [][SignOut => (socket' = 0 /\ socket \notin OpenSockets')]_vars

\* sign-in followed by the synced profile left two sockets open
C29_TwoOpenAfterSync ==
  /\ authUser # NoUser /\ authUser.synced /\ authUser.rev = 2
  /\ Cardinality(OpenSockets) = 2

(***************************************************************************)
(* The chat page's cached message list                                     *)
(***************************************************************************)
\* two messages closer than this many milliseconds count as the same send
ReplaceWindow == 30000

Abs(n) == IF n < 0 THEN 0 - n ELSE n

\* the test of handleNewMessage's findIndex
MatchesReceived(msg, newMessage) ==
  \/ msg.id = newMessage.id
  \/ /\ msg.content = newMessage.content
     /\ msg.authorId = newMessage.authorId
     /\ Abs(msg.timestamp - newMessage.timestamp) < ReplaceWindow

\* the test of onSuccess's findIndex; msg.id.startsWith('temp_') is id TempId
MatchesSent(msg, newMessage) ==
  \/ msg.id = newMessage.id
  \/ /\ msg.id = TempId
     /\ msg.content = newMessage.content
     /\ msg.authorId = newMessage.authorId
     /\ Abs(msg.timestamp - newMessage.timestamp) < ReplaceWindow

\* Array.prototype.findIndex, 0 for -1
FirstMatch(list, newMessage, Same(_, _)) ==
  IF \E i \in DOMAIN list : Same(list[i], newMessage)
  THEN CHOOSE i \in DOMAIN list :
         /\ Same(list[i], newMessage)
         /\ \A j \in 1..(i - 1) : ~Same(list[j], newMessage)
  ELSE 0

\* the replace-or-append of both handlers
ReplaceOrAppend(list, newMessage, Same(_, _)) ==
  LET existingIndex == FirstMatch(list, newMessage, Same)
  IN IF existingIndex > 0 THEN [list EXCEPT ![existingIndex] = newMessage]
     ELSE Append(list, newMessage)

\* Array.prototype.sort((a, b) => a.timestamp - b.timestamp), which is stable
RECURSIVE SortByTimestamp(_)
SortByTimestamp(list) ==
  IF list = <<>> THEN <<>>
  ELSE LET rest == SortByTimestamp(SubSeq(list, 1, Len(list) - 1))
           last == list[Len(list)]
           k    == Cardinality({i \in DOMAIN rest : rest[i].timestamp <= last.timestamp})
       IN SubSeq(rest, 1, k) \o <<last>> \o SubSeq(rest, k + 1, Len(rest))

\* Array.from(new Map(list.map(msg => [msg.id, msg])).values()): a key keeps
\* the place of its first entry and the value of its last
RECURSIVE UniqueById(_)
UniqueById(list) ==
  IF list = <<>> THEN <<>>
  ELSE LET rest == UniqueById(SubSeq(list, 1, Len(list) - 1))
           last == list[Len(list)]
       IN IF \E i \in DOMAIN rest : rest[i].id = last.id
          THEN [i \in DOMAIN rest |-> IF rest[i].id = last.id THEN last ELSE rest[i]]
          ELSE Append(rest, last)

\* the updater of handleNewMessage
HandleNewMessage(list, newMessage) ==
  UniqueById(SortByTimestamp(ReplaceOrAppend(list, newMessage, MatchesReceived)))

\* the updater of sendMessageMutation.onSuccess
OnSendSuccess(list, newMessage) ==
  SortByTimestamp(UniqueById(ReplaceOrAppend(list, newMessage, MatchesSent)))

\* the updater of handleMessageDeleted
HandleMessageDeleted(list, messageId) ==
  LET Kept(msg) == msg.id # messageId
  IN SelectSeq(list, Kept)

ListFrameClient ==
  /\ UNCHANGED <<submits, outbox, authUser, initializing, clientSockets, socket>>
  /\ ServerFrame

\* a message:receive event reaches the page
ReceiveMessage(newMessage) ==
  /\ chatList' = HandleNewMessage(chatList, newMessage)
  /\ ListFrameClient

\* the POST /chat/messages response reaches the page
SendSucceeded(newMessage) ==
  /\ chatList' = OnSendSuccess(chatList, newMessage)
  /\ ListFrameClient

\* a message:delete event reaches the page
MessageDeleted(messageId) ==
  /\ chatList' = HandleMessageDeleted(chatList, messageId)
  /\ ListFrameClient

\* useQuery(['chat', 'messages']): the fetched page becomes the list
FetchMessages(page) ==
  /\ chatList' = page
  /\ ListFrameClient

\* the page GET /chat/messages answers with: two stored messages of u2
FetchedPages ==
  {<<[id |-> 1, content |-> <<"a">>, authorId |-> "u2", timestamp |-> 0],
     [id |-> 2, content |-> <<"b">>, authorId |-> "u2", timestamp |-> 0]>>}

\* the messages the server hands to the page: stored ones and ones with a
\* temporary id, sent at one of three times
DeliveredMessages ==
  [id : TempId..MaxListed, content : {<<"a">>, <<"b">>}, authorId : {"u1"},
   timestamp : {0, 10000, 40000}]

NextChatList ==
  \/ \E page \in FetchedPages : FetchMessages(page)
  \/ \E m \in DeliveredMessages : ReceiveMessage(m)
  \/ \E m \in DeliveredMessages : SendSucceeded(m)
  \/ \E i \in TempId..MaxListed : MessageDeleted(i)

SpecChatList == Init /\ [][NextChatList]_vars

Listed(list) == {list[i] : i \in DOMAIN list}

ListedIds(list) == {list[i].id : i \in DOMAIN list}

\* the listed messages the server stored (a temporary id stands in for one)
Stored(list) == {msg \in Listed(list) : msg.id # TempId}

\* a message with a new id is added and every listed stored message stays
AddsAndKeeps(newMessage) ==
  newMessage.id \notin ListedIds(chatList) =>
    (newMessage \in Listed(chatList') /\ Stored(chatList) \subseteq Listed(chatList'))

\* C30: in the chat page's local message list, handling a message:receive
\* event (or a REST send response) for a message whose id is not yet in the
\* list adds that message and neither removes nor replaces any message
\* already in the list; so every message the server delivered stays visible
\* until a message:delete event for its id arrives.
C30_AddsAndKeeps ==
  [][\A m \in DeliveredMessages :
       (ReceiveMessage(m) \/ SendSucceeded(m)) => AddsAndKeeps(m)]_vars

\* the same when no listed message is taken for a copy of the new one
C30_AddsAndKeepsUnmatched ==
  [][\A m \in DeliveredMessages :
       /\ (ReceiveMessage(m) /\ FirstMatch(chatList, m, MatchesReceived) = 0)
            => AddsAndKeeps(m)
       /\ (SendSucceeded(m) /\ FirstMatch(chatList, m, MatchesSent) = 0)
            => AddsAndKeeps(m)]_vars

\* the list never shows two messages with one id
C30_ListedOnce ==
  \A i, j \in DOMAIN chatList : chatList[i].id = chatList[j].id => i = j

====
